---- MODULE Spec2Model ----
(***************************************************************************)
(* A model of the connection-resilience core of angular-tools:             *)
(*   - TimeoutBackoff        (timer based retry scheduler)                 *)
(*   - ExponentiallyBackoff  (rxjs retry operator with computed delays)    *)
(*   - WebsocketWorker       (connect / send / disconnect / flushQueue)    *)
(*   - ServerSentEventWorker (EventSource handlers over a TimeoutBackoff)  *)
(*   - StoreWorker           (observable key/value store)                  *)
(*   - SubscriptionWorker    (set and keyed map of subscriptions)          *)
(*   - PollingManager        (stop / resume / restart of a polling session)*)
(* Each component has its own specifications (SpecTB, SpecEB, SpecWS,      *)
(* SpecWSQ, SpecWSL, SpecWSC, SpecSSE, SpecSSEL, SpecStore, SpecStoreM,    *)
(* SpecSub, SpecPoll); a specification leaves the variables of the         *)
(* components it does not exercise alone.                                  *)
(* An operator defined right before a modelled one and not used by the     *)
(* model (TBExhaustedOffByOne before TBExhausted, ...) is that code with a *)
(* plausible bug, kept to show that the properties below tell them apart.  *)
(***************************************************************************)
EXTENDS Integers, Sequences, FiniteSets, TLC

(***************************************************************************)
(* Bounds of the model                                                     *)
(***************************************************************************)
\* maxRetries / maxRetryAttempts are drawn from 0..MaxAttemptsBound
MaxAttemptsBound == 2
\* calls of the TimeoutBackoff trigger function in one run
MaxTriggers == 5
\* events (value, error, complete) produced by the source of ExponentiallyBackoff
MaxSourceEvents == 6
\* connect(), disconnect() and reconnect() calls on a WebsocketWorker after construction
MaxLifecycleOps == 3
\* send() calls made while the transport is usable (written immediately)
MaxDirectSends == 2
\* the same in the queue scenario
MaxDirectSendsFlush == 1
\* send() calls made while there is no usable transport (queued), connection scenario
MaxQueuedSends == 2
\* the same in the queue scenario: one more than two batches, so that a
\* flushQueue run writes a whole batch and pauses, a second run that starts
\* during that pause writes another whole batch and pauses, and a woken run
\* still finds a message to write
MaxQueuedSendsFlush == 101
\* inbound websocket messages
MaxInbound == 2
\* inbound frames of the server-sent event channel (well-formed or not)
MaxFrames == 3
\* connect(), disconnect(), reconnect(), cleanOnDestroy() calls on a ServerSentEventWorker
MaxSseOps == 2
\* calls of the backoff function made by a ServerSentEventWorker (onerror,
\* onopen, resetBackoff)
MaxSseBackoffCalls == 4
\* addEventListener / removeEventListener calls on a ServerSentEventWorker
MaxListenerOps == 3
\* calls on a StoreWorker after construction
MaxStoreOps == 3
\* calls on a SubscriptionWorker after construction
MaxSubOps == 4
\* stop(), resume() and restart() calls on a PollingManager
MaxPollOps == 8
\* errors of the polled source
MaxPollErrors == 2
\* transport writes that raise an exception
MaxWriteThrows == 1
\* the write of a batch that raises is one of the first MaxThrowAt of the batch
MaxThrowAt == 3

(***************************************************************************)
(* Program constants: the default arguments (the same for TimeoutBackoff   *)
(* and ExponentiallyBackoff)                                               *)
(***************************************************************************)
DefaultMaxRetries == 3
DefaultInitialDelay == 1000
DefaultMaxDelay == 2 * 60 * 1000
\* WebsocketWorker.queueBatchSize
queueBatchSize == 50
\* WebsocketWorker.queueBatchDelayMs
queueBatchDelayMs == 100

(***************************************************************************)
(* Helpers                                                                 *)
(***************************************************************************)
RECURSIVE Pow2(_)
\* Math.pow(2, n) for a non-negative integer n
Pow2(n) == IF n <= 0 THEN 1 ELSE 2 * Pow2(n - 1)

\* Math.min(a, b)
MathMin(a, b) == IF a <= b THEN a ELSE b

\* An optional argument is the empty set (undefined) or a singleton {v}.
Undefined == {}
Some(v) == {v}
ValueOf(opt) == CHOOSE v \in opt : TRUE
\* a default parameter value: `param = dflt` in a TypeScript signature
OrDefault(opt, dflt) == IF opt = Undefined THEN dflt ELSE ValueOf(opt)

VARIABLES
    \* ---- TimeoutBackoff ----
    tbCfg,          \* the arguments: maxRetries, initialDelay, maxDelay, hasErrorCallback
    retries,        \* the closure variable `retries`
    tbTimers,       \* delays of the pending setTimeout timers, in scheduling order
    tbRetryCalls,   \* invocations of retryCallback
    tbErrorCalls,   \* invocations of errorCallback
    tbCalls,        \* calls of the returned function (bounds the run)
    tbHist,         \* history: what has happened since the last reset
    \* ---- ExponentiallyBackoff ----
    ebCfg,          \* the arguments of ExponentiallyBackoff
    ebSoFar,        \* the retry operator's counter `soFar`
    ebPhase,        \* "subscribed" | "waiting" | "errored" | "completed"
    ebWait,         \* the delay of the pending timer(...) notifier (0 when none)
    ebOut,          \* what the consumer has received: values, error, complete
    ebEvents,       \* source events so far (bounds the run)
    ebHist,         \* history of the run
    \* ---- WebsocketWorker ----
    wsCfg,          \* exponentialBackoffOptions (the arguments of ExponentiallyBackoff)
    wsConnection,   \* "undefined" | "live": a WebSocketSubject that is not closed
    wsSocket,       \* socket of the live WebSocketSubject: "none" | "connecting" | "open"
    wsSubscription, \* "undefined" | "open" | "closed"
    wsSoFar,        \* counter of the retry operator inside wsSubscription
    wsRetryWait,    \* Undefined, or Some(delay) of the pending retry timer
    wsMessages,     \* wsMessagesSubject: [stopped, last] (ReplaySubject(1))
    wsConnState,    \* last value published on connectionStateSubject
    wsErrors,       \* emissions on wsErrorSubject: [count, last]
    messageQueue,   \* the OutboundQueue
    wsFlushSleeping,\* flushQueue runs suspended in the inter-batch pause
    wsWritten,      \* websocketConnection.next(msg) calls: [id, queued], in call order
    wsListener,     \* a subscriber of an observable returned by listen()
    wsEnv,          \* the environment's counters and the history of the run
    \* ---- ServerSentEventWorker (its TimeoutBackoff is the one above) ----
    sseEventSource, \* "undefined", or the readyState: "connecting" | "open" | "closed"
    sseEventSubject,\* the ReplaySubject(1): [stopped, hasError, last]
    isSubjectClosed,\* the flag of the same name
    sseListener,    \* a subscriber of an observable returned by listen$()
    customEventListeners, \* the worker's list of (type, listener) pairs
    sseRegistered,  \* the pairs registered on the current EventSource
    sseEnv,         \* the environment's counters and the history of the run
    \* ---- StoreWorker ----
    storeInitial,   \* the field initialState: the object given to the constructor
    storeState,     \* state$.getValue(): the current snapshot
    storeHeld,      \* an object the caller keeps (JsUndefined: none)
    storeSub,       \* a subscriber of select$(key)
    storeEnv,       \* the caller's counters and the history of the run
    \* ---- SubscriptionWorker ----
    subs,           \* the Set `subs`, in insertion order
    mappedSubs,     \* the Map `mappedSubs`: <<key, subscription>> in insertion order
    swCalls,        \* for every subscription, the calls of its unsubscribe()
    swEnv,          \* the caller's counters and the history of the run
    \* ---- PollingManager (BootstrapPollingSession) ----
    pollSubscriptions,  \* every subscription of the polling observable made so
                        \* far, "open" | "closed"; the last one is `subscription`
    pollEnv         \* the caller's counters and the history of the run

tbVars == <<tbCfg, retries, tbTimers, tbRetryCalls, tbErrorCalls, tbCalls, tbHist>>
ebVars == <<ebCfg, ebSoFar, ebPhase, ebWait, ebOut, ebEvents, ebHist>>
wsVars == <<wsCfg, wsConnection, wsSocket, wsSubscription, wsSoFar, wsRetryWait,
            wsMessages, wsConnState, wsErrors, messageQueue, wsFlushSleeping,
            wsWritten, wsListener, wsEnv>>
sseVars == <<sseEventSource, sseEventSubject, isSubjectClosed, sseListener,
             customEventListeners, sseRegistered, sseEnv>>
storeVars == <<storeInitial, storeState, storeHeld, storeSub, storeEnv>>
subVars == <<subs, mappedSubs, swCalls, swEnv>>
pollVars == <<pollSubscriptions, pollEnv>>
vars == <<tbVars, ebVars, wsVars, sseVars, storeVars, subVars, pollVars>>

(***************************************************************************)
(* TimeoutBackoff                                                          *)
(***************************************************************************)
\* TimeoutBackoff(retryCallback, errorCallback): every default argument
TBDefaults ==
    {[maxRetries |-> DefaultMaxRetries, initialDelay |-> DefaultInitialDelay,
      maxDelay |-> DefaultMaxDelay, hasErrorCallback |-> TRUE]}

\* The argument lists the model explores.  Delays are milliseconds.
TBConfigs ==
    [maxRetries : 0..MaxAttemptsBound,
     initialDelay : {10},
     maxDelay : {30, 100},
     hasErrorCallback : BOOLEAN]
    \cup TBDefaults

TBExhaustedOffByOne(r, maxRetries) == r >= maxRetries
TBExhaustedOnce(r, maxRetries) == r = maxRetries + 1
\* `if (retries > maxRetries)`
TBExhausted(r, maxRetries) == r > maxRetries

TBDelayUncapped(r, initialDelay, maxDelay) == initialDelay * Pow2(r)
\* `Math.min(initialDelay * Math.pow(2, retries), maxDelay)`
TBDelay(r, initialDelay, maxDelay) == MathMin(initialDelay * Pow2(r), maxDelay)

TBResetValueKeeps(r) == r
\* `retries = 0` of the reset branch
TBResetValue(r) == 0

TBHistInit ==
    [sinceReset |-> 0,      \* trigger() calls since construction / the last reset
     scheduled |-> 0,       \* retries scheduled since then
     errors |-> 0,          \* errorCallback invocations since then
     resets |-> 0,          \* trigger(true) calls so far
     resetAfter |-> 0,      \* sinceReset at the moment of the last reset
     last |-> "none",       \* "schedule" | "fatal" | "reset" | "fire"
     lastDelay |-> 0]       \* delay of the last scheduled timer

TBInitWith(cfgs) ==
    /\ tbCfg \in cfgs
    /\ retries = 0
    /\ tbTimers = <<>>
    /\ tbRetryCalls = 0
    /\ tbErrorCalls = 0
    /\ tbCalls = 0
    /\ tbHist = TBHistInit

\* retry(reset) with reset !== true
TBTrigger ==
    /\ tbCalls < MaxTriggers
    /\ tbCalls' = tbCalls + 1
    /\ retries' = retries + 1
    /\ IF TBExhausted(retries', tbCfg.maxRetries)
       THEN /\ tbErrorCalls' = IF tbCfg.hasErrorCallback
                               THEN tbErrorCalls + 1 ELSE tbErrorCalls
            /\ tbTimers' = tbTimers
            /\ tbHist' = [tbHist EXCEPT
                            !.sinceReset = @ + 1,
                            !.errors = IF tbCfg.hasErrorCallback THEN @ + 1 ELSE @,
                            !.last = "fatal"]
       ELSE /\ tbTimers' = Append(tbTimers,
                             TBDelay(retries', tbCfg.initialDelay, tbCfg.maxDelay))
            /\ tbErrorCalls' = tbErrorCalls
            /\ tbHist' = [tbHist EXCEPT
                            !.sinceReset = @ + 1,
                            !.scheduled = @ + 1,
                            !.last = "schedule",
                            !.lastDelay = TBDelay(retries', tbCfg.initialDelay,
                                                  tbCfg.maxDelay)]
    /\ UNCHANGED <<tbCfg, tbRetryCalls>>

\* retry(true)
TBReset ==
    /\ tbCalls < MaxTriggers
    /\ tbCalls' = tbCalls + 1
    /\ retries' = TBResetValue(retries)
    /\ tbHist' = [tbHist EXCEPT
                    !.resetAfter = tbHist.sinceReset,
                    !.sinceReset = 0, !.scheduled = 0, !.errors = 0,
                    !.resets = @ + 1, !.last = "reset"]
    /\ UNCHANGED <<tbCfg, tbTimers, tbRetryCalls, tbErrorCalls>>

\* a pending setTimeout callback runs: retryCallback()
TBTimerFire ==
    /\ tbTimers # <<>>
    /\ \E i \in 1..Len(tbTimers) :
          tbTimers' = SubSeq(tbTimers, 1, i - 1) \o SubSeq(tbTimers, i + 1, Len(tbTimers))
    /\ tbRetryCalls' = tbRetryCalls + 1
    /\ tbHist' = [tbHist EXCEPT !.last = "fire"]
    /\ UNCHANGED <<tbCfg, retries, tbErrorCalls, tbCalls>>

TBNext ==
    \/ TBTrigger /\ UNCHANGED <<ebVars, wsVars, sseVars, storeVars, subVars, pollVars>>
    \/ TBReset /\ UNCHANGED <<ebVars, wsVars, sseVars, storeVars, subVars, pollVars>>
    \/ TBTimerFire /\ UNCHANGED <<ebVars, wsVars, sseVars, storeVars, subVars, pollVars>>

(***************************************************************************)
(* ExponentiallyBackoff                                                    *)
(***************************************************************************)
EBConfigs ==
    [maxRetryAttempts : {Undefined} \cup {Some(k) : k \in 0..MaxAttemptsBound},
     initialDelay : {Undefined, Some(5)},
     maxDelay : {Undefined, Some(10)},
     disableAndUseConstantDelayOf : {Undefined, Some(0), Some(10), Some(25)}]

\* the parameters after default-argument substitution
EBMaxRetryAttempts(cfg) == OrDefault(cfg.maxRetryAttempts, DefaultMaxRetries)
EBInitialDelay(cfg) == OrDefault(cfg.initialDelay, DefaultInitialDelay)
EBMaxDelay(cfg) == OrDefault(cfg.maxDelay, DefaultMaxDelay)

EBDelayIgnoresConstant(cfg, retryCount) ==
    MathMin(EBInitialDelay(cfg) * Pow2(retryCount), EBMaxDelay(cfg))
\* `disableAndUseConstantDelayOf ?? Math.min(initialDelay * Math.pow(2, retryCount), maxDelay)`
EBDelay(cfg, retryCount) ==
    IF cfg.disableAndUseConstantDelayOf # Undefined
    THEN ValueOf(cfg.disableAndUseConstantDelayOf)
    ELSE MathMin(EBInitialDelay(cfg) * Pow2(retryCount), EBMaxDelay(cfg))

EBMayRetryOffByOne(soFar, count) == soFar <= count
\* rxjs retry: `count <= 0 ? identity : ...  if (soFar++ < count)`
EBMayRetry(soFar, count) == count > 0 /\ soFar < count

EBNoResetOnSuccess(soFar) == soFar
\* `resetOnSuccess: true`: the counter after a value has been delivered
EBAfterSuccess(soFar) == 0

EBHistInit ==
    [failRun |-> 0,         \* consecutive source failures since the last value
     resubs |-> 0,          \* resubscriptions since the last value
     successes |-> 0,       \* values delivered so far
     failsBefore |-> 0,     \* failures that preceded the last value
     last |-> "none"]       \* "value" | "absorbed" | "propagated" | "resubscribed" | "complete"

EBInitWith(cfgs) ==
    /\ ebCfg \in cfgs
    /\ ebSoFar = 0
    /\ ebPhase = "subscribed"
    /\ ebWait = 0
    /\ ebOut = [values |-> 0, error |-> FALSE, complete |-> FALSE]
    /\ ebEvents = 0
    /\ ebHist = EBHistInit

\* the source delivers a value
EBSourceNext ==
    /\ ebPhase = "subscribed"
    /\ ebEvents < MaxSourceEvents
    /\ ebEvents' = ebEvents + 1
    /\ ebSoFar' = EBAfterSuccess(ebSoFar)
    /\ ebOut' = [ebOut EXCEPT !.values = @ + 1]
    /\ ebHist' = [ebHist EXCEPT !.failsBefore = ebHist.failRun + ebHist.failsBefore,
                                !.failRun = 0, !.resubs = 0,
                                !.successes = @ + 1, !.last = "value"]
    /\ UNCHANGED <<ebCfg, ebPhase, ebWait>>

\* the source fails
EBSourceError ==
    /\ ebPhase = "subscribed"
    /\ ebEvents < MaxSourceEvents
    /\ ebEvents' = ebEvents + 1
    /\ ebSoFar' = ebSoFar + 1
    /\ IF EBMayRetry(ebSoFar, EBMaxRetryAttempts(ebCfg))
       THEN /\ ebPhase' = "waiting"
            /\ ebWait' = EBDelay(ebCfg, ebSoFar')
            /\ ebOut' = ebOut
            /\ ebHist' = [ebHist EXCEPT !.failRun = @ + 1, !.last = "absorbed"]
       ELSE /\ ebPhase' = "errored"
            /\ ebWait' = 0
            /\ ebOut' = [ebOut EXCEPT !.error = TRUE]
            /\ ebHist' = [ebHist EXCEPT !.failRun = @ + 1, !.last = "propagated"]
    /\ UNCHANGED ebCfg

\* the source completes
EBSourceComplete ==
    /\ ebPhase = "subscribed"
    /\ ebEvents < MaxSourceEvents
    /\ ebEvents' = ebEvents + 1
    /\ ebPhase' = "completed"
    /\ ebOut' = [ebOut EXCEPT !.complete = TRUE]
    /\ ebHist' = [ebHist EXCEPT !.last = "complete"]
    /\ UNCHANGED <<ebCfg, ebSoFar, ebWait>>

\* the timer(...) notifier fires: resubscribe to the source
EBDelayElapsed ==
    /\ ebPhase = "waiting"
    /\ ebPhase' = "subscribed"
    /\ ebWait' = 0
    /\ ebHist' = [ebHist EXCEPT !.resubs = @ + 1, !.last = "resubscribed"]
    /\ UNCHANGED <<ebCfg, ebSoFar, ebOut, ebEvents>>

EBNext ==
    \/ EBSourceNext /\ UNCHANGED <<tbVars, wsVars, sseVars, storeVars, subVars, pollVars>>
    \/ EBSourceError /\ UNCHANGED <<tbVars, wsVars, sseVars, storeVars, subVars, pollVars>>
    \/ EBSourceComplete /\ UNCHANGED <<tbVars, wsVars, sseVars, storeVars, subVars, pollVars>>
    \/ EBDelayElapsed /\ UNCHANGED <<tbVars, wsVars, sseVars, storeVars, subVars, pollVars>>

(***************************************************************************)
(* WebsocketWorker                                                         *)
(*                                                                         *)
(* wsConnection is a WebSocketSubject.  Its `closed` flag becomes true     *)
(* only in WebSocketSubject.unsubscribe(), which disconnect() follows at   *)
(* once by `wsConnection = undefined`, so a defined connection is never    *)
(* closed.  A socket error or close leaves the WebSocketSubject itself     *)
(* open: it forwards the failure to its subscriber (the retry operator).   *)
(***************************************************************************)
\* ReplaySubject(1).next(v): a stopped subject ignores the value, otherwise
\* the buffer holds v alone
ReplayNext(subject, v) ==
    IF subject.stopped THEN subject ELSE [subject EXCEPT !.last = Some(v)]

\* what a new subscriber of a ReplaySubject(1) is handed at once
ReplayOnSubscribe(subject) ==
    IF subject.last = Undefined THEN <<>> ELSE <<ValueOf(subject.last)>>

\* A subscriber of the observable a worker hands out: `bound` tells whether
\* the subject it subscribed to is the worker's current one ("current"), one
\* the worker has replaced since ("old"), or whether it has not subscribed
\* yet ("none"); got, ended and failed are the values, the completion and the
\* error it has received.
ListenerInit == [bound |-> "none", got |-> <<>>, ended |-> FALSE, failed |-> FALSE]

\* subscribe(): the replayed value, then the completion or the error of a
\* subject that has already stopped
ListenerAttach(subject, hasError) ==
    [bound |-> "current",
     got |-> ReplayOnSubscribe(subject),
     ended |-> subject.stopped /\ ~hasError,
     failed |-> subject.stopped /\ hasError]

ListenerOpen(l) == l.bound # "none" /\ ~l.ended /\ ~l.failed

\* subject.next(v) as seen by the subscriber (subject: before the call)
ListenerNext(l, subject, v) ==
    IF l.bound = "current" /\ ListenerOpen(l) /\ ~subject.stopped
    THEN [l EXCEPT !.got = Append(@, v)] ELSE l

\* subject.complete() as seen by the subscriber
ListenerComplete(l) ==
    IF l.bound = "current" /\ ListenerOpen(l) THEN [l EXCEPT !.ended = TRUE] ELSE l

\* subject.error(e) as seen by the subscriber
ListenerError(l) ==
    IF l.bound = "current" /\ ListenerOpen(l) THEN [l EXCEPT !.failed = TRUE] ELSE l

\* the worker replaces its subject by a new ReplaySubject: the subscriber
\* stays with the one it subscribed to
ListenerOrphan(l) == IF l.bound = "current" THEN [l EXCEPT !.bound = "old"] ELSE l

\* exponentialBackoffOptions: constant 5 ms delay, maxRetryAttempts as drawn
WSConfigsWith(attempts) ==
    [maxRetryAttempts : {Some(k) : k \in attempts},
     initialDelay : {Undefined},
     maxDelay : {Undefined},
     disableAndUseConstantDelayOf : {Some(5)}]

\* `this.websocketConnection && !this.websocketConnection.closed`
WSTransportUsable(conn) == conn = "live"

\* get isDisconnected: `websocketConnection === undefined || websocketConnection.closed`
WSIsDisconnected(conn) == conn = "undefined"

WSEnqueueAtHead(queue, data) == <<data>> \o queue
\* `this.messageQueue.push(data)`
WSEnqueue(queue, data) == Append(queue, data)

WSBatchAll(queue) == queue
\* the elements removed by `this.messageQueue.splice(0, this.queueBatchSize)`
WSBatch(queue) == SubSeq(queue, 1, MathMin(Len(queue), queueBatchSize))

WSAfterSpliceKeepsOne(queue) ==
    SubSeq(queue, MathMin(Len(queue), queueBatchSize), Len(queue))
\* the queue left by `this.messageQueue.splice(0, this.queueBatchSize)`
WSAfterSplice(queue) ==
    SubSeq(queue, MathMin(Len(queue), queueBatchSize) + 1, Len(queue))

WSSendNoCatch(usable, writeThrows) ==
    [write |-> usable /\ ~writeThrows,
     enqueue |-> ~usable,
     emitError |-> FALSE,
     escapes |-> usable /\ writeThrows]
\* what send(data) does, given whether the transport is usable and whether
\* websocketConnection.next(data) raises an exception
WSSendOutcome(usable, writeThrows) ==
    [write |-> usable /\ ~writeThrows,      \* the write took place
     enqueue |-> ~usable,                   \* messageQueue.push(data)
     emitError |-> usable /\ writeThrows,   \* catch: wsErrorSubject.next(e)
     escapes |-> FALSE]                     \* the exception leaves send()

\* the subscriber's `error` handler: connectionStateSubject.next('error'); the
\* message subject is not touched
WSOnExhausted(connState, messages) ==
    [connState |-> "error", messages |-> messages]

Written(ids, viaQueue) == [i \in 1..Len(ids) |-> [id |-> ids[i], queued |-> viaQueue]]

WSEnvInit ==
    [sent |-> 0,            \* send() calls: the next message is sent + 1
     direct |-> 0,          \* of these, with a usable transport
     queued |-> 0,          \* of these, appended to the queue
     ops |-> 0,             \* connect(), disconnect(), reconnect() calls
     inbound |-> 0,         \* inbound messages
     throws |-> 0,          \* transport writes that raised an exception
     escaped |-> 0,         \* exceptions that left a public method
     overlap |-> FALSE,     \* a flushQueue run wrote while another was suspended
     overlaps |-> 0,        \* the turns of flushQueue that did so
     raising |-> TRUE,      \* the transport is a double whose next() may raise;
                            \* FALSE: the WebSocketSubject of rxjs, whose next()
                            \* hands the message over and does not raise
     exhaustions |-> 0,     \* times the retry operator gave up
     exhausted |-> FALSE,   \* the retry operator gave up and no connect() or
                            \* reconnect() has opened a new connection since
     connFirst |-> 0,       \* inbound messages before the current connection
     enq |-> {},            \* the messages send() appended to the queue
     pause |-> Undefined,   \* the delay of the pause the latest flushQueue turn
                            \* began, if it began one
     url |-> "string",      \* what the injected WEBSOCKET_URL is
     ctorError |-> Undefined,   \* the message of the error the constructor threw
     pub |-> <<"connecting">>,  \* values the last step published on connectionState$
     last |-> "constructor"]

\* the state after `new WebsocketWorker()`: the constructor calls connect()
WSInitOver(cfgs, raising) ==
    /\ wsCfg \in cfgs
    /\ wsConnection = "live"
    /\ wsSocket = "connecting"
    /\ wsSubscription = "open"
    /\ wsSoFar = 0
    /\ wsRetryWait = Undefined
    /\ wsMessages = [stopped |-> FALSE, last |-> Undefined]
    /\ wsConnState = "connecting"
    /\ wsErrors = [count |-> 0, last |-> "none"]
    /\ messageQueue = <<>>
    /\ wsFlushSleeping = 0
    /\ wsWritten = <<>>
    /\ wsListener = ListenerInit
    /\ wsEnv = [WSEnvInit EXCEPT !.raising = raising]

WSInitWith(cfgs) == WSInitOver(cfgs, TRUE)

\* what the injected WEBSOCKET_URL may be
WSUrlKinds == {"string", "object", "number", "boolean"}

InvalidConfigMessage == "Invalid WebSocketSubjectConfig. Object expected."

WSCreateWebSocketConfigAcceptsAll(url) ==
    [error |-> Undefined, config |-> "wrapped"]
\* createWebSocketConfig(): a string is returned as it is; anything else that
\* is not an object makes it throw; an object is returned with its open and
\* close observers wrapped
WSCreateWebSocketConfig(url) ==
    IF url = "string"
    THEN [error |-> Undefined, config |-> "url"]
    ELSE IF url # "object"
         THEN [error |-> Some(InvalidConfigMessage), config |-> "none"]
         ELSE [error |-> Undefined, config |-> "wrapped"]

\* the state after `new WebsocketWorker()` for any WEBSOCKET_URL: the
\* constructor calls connect(), which publishes 'connecting', makes the
\* message subject and calls createWebSocketConfig() as the argument of
\* webSocket(); when that throws, the exception leaves connect() and the
\* constructor before wsConnection and wsSubscription are assigned, and
\* there is no instance to call
WSInitConstruct(cfgs, urls) ==
    /\ wsCfg \in cfgs
    /\ wsSoFar = 0
    /\ wsRetryWait = Undefined
    /\ wsMessages = [stopped |-> FALSE, last |-> Undefined]
    /\ wsConnState = "connecting"
    /\ wsErrors = [count |-> 0, last |-> "none"]
    /\ messageQueue = <<>>
    /\ wsFlushSleeping = 0
    /\ wsWritten = <<>>
    /\ wsListener = ListenerInit
    /\ \E url \in urls :
          LET c == WSCreateWebSocketConfig(url)
          IN  /\ wsEnv = [WSEnvInit EXCEPT !.url = url, !.ctorError = c.error]
              /\ IF c.error = Undefined
                 THEN /\ wsConnection = "live"
                      /\ wsSocket = "connecting"
                      /\ wsSubscription = "open"
                 ELSE /\ wsConnection = "undefined"
                      /\ wsSocket = "none"
                      /\ wsSubscription = "undefined"

\* send(data): data is the number of the send() call
WSSend(writeThrows) ==
    LET data == wsEnv.sent + 1
        usable == WSTransportUsable(wsConnection)
        out == WSSendOutcome(usable, writeThrows)
    IN  /\ writeThrows => (usable /\ wsEnv.raising /\ wsEnv.throws < MaxWriteThrows)
        /\ wsWritten' = IF out.write
                        THEN Append(wsWritten, [id |-> data, queued |-> FALSE])
                        ELSE wsWritten
        /\ messageQueue' = IF out.enqueue THEN WSEnqueue(messageQueue, data)
                           ELSE messageQueue
        /\ wsErrors' = IF out.emitError
                       THEN [count |-> wsErrors.count + 1, last |-> "send"]
                       ELSE wsErrors
        /\ wsEnv' = [wsEnv EXCEPT
                        !.sent = @ + 1,
                        !.direct = IF usable THEN @ + 1 ELSE @,
                        !.queued = IF usable THEN @ ELSE @ + 1,
                        !.enq = IF out.enqueue THEN @ \cup {data} ELSE @,
                        !.throws = IF writeThrows THEN @ + 1 ELSE @,
                        !.escaped = IF out.escapes THEN @ + 1 ELSE @,
                        !.pub = <<>>,
                        !.last = "send"]
        /\ UNCHANGED <<wsCfg, wsConnection, wsSocket, wsSubscription, wsSoFar,
                       wsRetryWait, wsMessages, wsConnState, wsFlushSleeping,
                       wsListener>>

\* One turn of the loop of flushQueue(): the loop test, one batch and the
\* decision to pause.  The batch is spliced off the queue and then written in
\* a loop without try/catch.  throwAt = 0: no write raises.  throwAt = k > 0:
\* the k-th write of the batch raises; the k - 1 writes before it took place,
\* the exception rejects the promise of the run, and the rest of the batch,
\* already off the queue, is not written.
WSFlushTurn(queue, written, sleeping, conn, throwAt) ==
    IF Len(queue) > 0 /\ WSTransportUsable(conn)
    THEN LET batch == WSBatch(queue)
             rest == WSAfterSplice(queue)
         IN  IF throwAt = 0 \/ throwAt > Len(batch)
             THEN [queue |-> rest,
                   written |-> written \o Written(batch, TRUE),
                   sleeping |-> IF Len(rest) > 0 THEN sleeping + 1 ELSE sleeping,
                   pause |-> IF Len(rest) > 0 THEN Some(queueBatchDelayMs)
                                              ELSE Undefined,
                   wrote |-> TRUE]
             ELSE [queue |-> rest,
                   written |-> written \o Written(SubSeq(batch, 1, throwAt - 1), TRUE),
                   sleeping |-> sleeping,
                   pause |-> Undefined,
                   wrote |-> throwAt > 1]
    ELSE [queue |-> queue, written |-> written, sleeping |-> sleeping,
          pause |-> Undefined, wrote |-> FALSE]

\* which write of the next batch may raise (0: none)
WSMayThrow(queue, conn) ==
    {0} \cup (IF /\ wsEnv.raising
                 /\ wsEnv.throws < MaxWriteThrows
                 /\ Len(queue) > 0
                 /\ WSTransportUsable(conn)
              THEN 1..MathMin(Len(WSBatch(queue)), MaxThrowAt) ELSE {})

\* connect(), with the synchronous part of `void this.flushQueue()`
WSConnectBody(env, throwAt) ==
    IF wsSubscription = "open"
    THEN \* 'connecting', then 'connected'; return
         /\ wsConnState' = "connected"
         /\ wsEnv' = [env EXCEPT !.pub = <<"connecting", "connected">>]
         /\ UNCHANGED <<wsCfg, wsConnection, wsSocket, wsSubscription, wsSoFar,
                        wsRetryWait, wsMessages, wsErrors, messageQueue,
                        wsFlushSleeping, wsWritten, wsListener>>
    ELSE LET f == WSFlushTurn(messageQueue, wsWritten, wsFlushSleeping, "live", throwAt)
         IN  /\ wsConnState' = "connecting"
             /\ wsMessages' = [stopped |-> FALSE, last |-> Undefined]
             /\ wsConnection' = "live"
             /\ wsSocket' = "connecting"
             /\ wsSubscription' = "open"
             /\ wsSoFar' = 0
             /\ wsRetryWait' = Undefined
             /\ messageQueue' = f.queue
             /\ wsWritten' = f.written
             /\ wsFlushSleeping' = f.sleeping
             /\ wsListener' = ListenerOrphan(wsListener)
             /\ wsEnv' = [env EXCEPT
                            !.throws = IF throwAt > 0 THEN @ + 1 ELSE @,
                            !.pause = f.pause,
                            !.overlap = @ \/ (f.wrote /\ wsFlushSleeping > 0),
                            !.overlaps = IF f.wrote /\ wsFlushSleeping > 0
                                          THEN @ + 1 ELSE @,
                            !.exhausted = FALSE,
                            !.connFirst = env.inbound,
                            !.pub = <<"connecting">>]
             /\ UNCHANGED <<wsCfg, wsErrors>>

WSConnect ==
    /\ wsEnv.ops < MaxLifecycleOps
    /\ \E throwAt \in (IF wsSubscription = "open" THEN {0}
                        ELSE WSMayThrow(messageQueue, "live")) :
          WSConnectBody([wsEnv EXCEPT !.ops = @ + 1, !.last = "connect"], throwAt)

\* disconnect(): unsubscribe the retry pipeline if there is one (that closes
\* the socket and cancels a pending retry timer), unsubscribe and drop the
\* WebSocketSubject if there is one, complete the message subject, publish
\* 'disconnected'.  Where one of these is already gone the code only warns.
WSDisconnect ==
    /\ wsEnv.ops < MaxLifecycleOps
    /\ wsSubscription' = "undefined"
    /\ wsConnection' = "undefined"
    /\ wsSocket' = "none"
    /\ wsSoFar' = 0
    /\ wsRetryWait' = Undefined
    /\ wsMessages' = [wsMessages EXCEPT !.stopped = TRUE]
    /\ wsConnState' = "disconnected"
    /\ wsListener' = ListenerComplete(wsListener)
    /\ wsEnv' = [wsEnv EXCEPT !.ops = @ + 1, !.pub = <<"disconnected">>,
                              !.last = "disconnect"]
    /\ UNCHANGED <<wsCfg, wsErrors, messageQueue, wsFlushSleeping, wsWritten>>

\* reconnect(): 'reconnecting'; disconnect(); connect()
WSReconnect ==
    /\ wsEnv.ops < MaxLifecycleOps
    /\ \E throwAt \in WSMayThrow(messageQueue, "live") :
          LET f == WSFlushTurn(messageQueue, wsWritten, wsFlushSleeping, "live", throwAt)
          IN  /\ wsConnState' = "connecting"
              /\ wsMessages' = [stopped |-> FALSE, last |-> Undefined]
              /\ wsConnection' = "live"
              /\ wsSocket' = "connecting"
              /\ wsSubscription' = "open"
              /\ wsSoFar' = 0
              /\ wsRetryWait' = Undefined
              /\ messageQueue' = f.queue
              /\ wsWritten' = f.written
              /\ wsFlushSleeping' = f.sleeping
              /\ wsListener' = ListenerOrphan(ListenerComplete(wsListener))
              /\ wsEnv' = [wsEnv EXCEPT
                             !.ops = @ + 1, !.last = "reconnect",
                             !.throws = IF throwAt > 0 THEN @ + 1 ELSE @,
                             !.pause = f.pause,
                             !.overlap = @ \/ (f.wrote /\ wsFlushSleeping > 0),
                            !.overlaps = IF f.wrote /\ wsFlushSleeping > 0
                                          THEN @ + 1 ELSE @,
                             !.exhausted = FALSE,
                             !.connFirst = wsEnv.inbound,
                             !.pub = <<"reconnecting", "disconnected", "connecting">>]
              /\ UNCHANGED <<wsCfg, wsErrors>>

\* the inter-batch pause of one flushQueue run is over: its loop goes on
WSFlushWake ==
    /\ wsFlushSleeping > 0
    /\ \E throwAt \in WSMayThrow(messageQueue, wsConnection) :
          LET f == WSFlushTurn(messageQueue, wsWritten, wsFlushSleeping - 1,
                               wsConnection, throwAt)
          IN  /\ messageQueue' = f.queue
              /\ wsWritten' = f.written
              /\ wsFlushSleeping' = f.sleeping
              /\ wsEnv' = [wsEnv EXCEPT
                             !.last = "flush",
                             !.pub = <<>>,
                             !.throws = IF throwAt > 0 THEN @ + 1 ELSE @,
                             !.pause = f.pause,
                             !.overlap = @ \/ (f.wrote /\ wsFlushSleeping > 1),
                             !.overlaps = IF f.wrote /\ wsFlushSleeping > 1
                                          THEN @ + 1 ELSE @]
    /\ UNCHANGED <<wsCfg, wsConnection, wsSocket, wsSubscription, wsSoFar,
                   wsRetryWait, wsMessages, wsConnState, wsErrors, wsListener>>

\* the socket opens
WSSocketOpen ==
    /\ wsSubscription = "open"
    /\ wsSocket = "connecting"
    /\ wsSocket' = "open"
    /\ wsEnv' = [wsEnv EXCEPT !.pub = <<>>, !.last = "open"]
    /\ UNCHANGED <<wsCfg, wsConnection, wsSubscription, wsSoFar, wsRetryWait,
                   wsMessages, wsConnState, wsErrors, messageQueue,
                   wsFlushSleeping, wsWritten, wsListener>>

\* an inbound frame: the `next` handler of the subscription
WSInbound ==
    /\ wsSubscription = "open"
    /\ wsSocket = "open"
    /\ wsEnv.inbound < MaxInbound
    /\ wsSoFar' = EBAfterSuccess(wsSoFar)
    /\ wsConnState' = "connected"
    /\ wsMessages' = ReplayNext(wsMessages, wsEnv.inbound + 1)
    /\ wsListener' = ListenerNext(wsListener, wsMessages, wsEnv.inbound + 1)
    /\ wsEnv' = [wsEnv EXCEPT !.inbound = @ + 1, !.pub = <<"connected">>,
                              !.last = "inbound"]
    /\ UNCHANGED <<wsCfg, wsConnection, wsSocket, wsSubscription, wsRetryWait,
                   wsErrors, messageQueue, wsFlushSleeping, wsWritten>>

\* the socket fails (error event, or close event that is not clean): the
\* WebSocketSubject resets its socket and errors its subscriber, the retry
\* operator; that one either waits and resubscribes or gives up, and then the
\* `error` handler of the subscription runs
WSSocketFault ==
    /\ wsSubscription = "open"
    /\ wsSocket \in {"connecting", "open"}
    /\ wsSocket' = "none"
    /\ wsSoFar' = wsSoFar + 1
    /\ IF EBMayRetry(wsSoFar, EBMaxRetryAttempts(wsCfg))
       THEN /\ wsRetryWait' = Some(EBDelay(wsCfg, wsSoFar'))
            /\ wsEnv' = [wsEnv EXCEPT !.pub = <<>>, !.last = "fault"]
            /\ UNCHANGED <<wsSubscription, wsConnState, wsMessages, wsErrors>>
       ELSE LET h == WSOnExhausted(wsConnState, wsMessages)
            IN  /\ wsRetryWait' = Undefined
                /\ wsSubscription' = "closed"
                /\ wsConnState' = h.connState
                /\ wsMessages' = h.messages
                /\ wsErrors' = [count |-> wsErrors.count + 1, last |-> "connection"]
                /\ wsEnv' = [wsEnv EXCEPT !.exhaustions = @ + 1,
                                          !.exhausted = TRUE,
                                          !.pub = <<h.connState>>,
                                          !.last = "exhausted"]
    /\ UNCHANGED <<wsCfg, wsConnection, messageQueue, wsFlushSleeping, wsWritten,
                   wsListener>>

\* the socket closes cleanly: the `complete` handler of the subscription runs
WSSocketClose ==
    /\ wsSubscription = "open"
    /\ wsSocket \in {"connecting", "open"}
    /\ wsSocket' = "none"
    /\ wsSubscription' = "closed"
    /\ wsConnState' = "disconnected"
    /\ wsEnv' = [wsEnv EXCEPT !.pub = <<"disconnected">>, !.last = "closed"]
    /\ UNCHANGED <<wsCfg, wsConnection, wsSoFar, wsRetryWait, wsMessages, wsErrors,
                   messageQueue, wsFlushSleeping, wsWritten, wsListener>>

\* the retry operator's timer fires: it subscribes to the WebSocketSubject
\* again, which opens a new socket
WSRetryElapsed ==
    /\ wsSubscription = "open"
    /\ wsRetryWait # Undefined
    /\ wsRetryWait' = Undefined
    /\ wsSocket' = "connecting"
    /\ wsEnv' = [wsEnv EXCEPT !.pub = <<>>, !.last = "retry"]
    /\ UNCHANGED <<wsCfg, wsConnection, wsSubscription, wsSoFar, wsMessages,
                   wsConnState, wsErrors, messageQueue, wsFlushSleeping, wsWritten,
                   wsListener>>

\* listen() (or pickMessage / pickAndMapMessage with a filter that accepts
\* every message) and subscribe(): the observable is built on wsMessages$, the
\* observable of the subject that is current at the time of the call
WSListen ==
    /\ wsListener.bound = "none"
    /\ wsListener' = ListenerAttach(wsMessages, FALSE)
    /\ wsEnv' = [wsEnv EXCEPT !.pub = <<>>, !.last = "listen"]
    /\ UNCHANGED <<wsCfg, wsConnection, wsSocket, wsSubscription, wsSoFar,
                   wsRetryWait, wsMessages, wsConnState, wsErrors, messageQueue,
                   wsFlushSleeping, wsWritten>>

\* the connection scenario: every operation and transport event, with fewer
\* queued messages than one batch, so that no flushQueue run ever pauses
WSNext ==
    \/ /\ IF WSTransportUsable(wsConnection) THEN wsEnv.direct < MaxDirectSends
                                             ELSE wsEnv.queued < MaxQueuedSends
       /\ \E writeThrows \in BOOLEAN : WSSend(writeThrows)
       /\ UNCHANGED <<tbVars, ebVars, sseVars, storeVars, subVars, pollVars>>
    \/ WSConnect /\ UNCHANGED <<tbVars, ebVars, sseVars, storeVars, subVars, pollVars>>
    \/ WSDisconnect /\ UNCHANGED <<tbVars, ebVars, sseVars, storeVars, subVars, pollVars>>
    \/ WSReconnect /\ UNCHANGED <<tbVars, ebVars, sseVars, storeVars, subVars, pollVars>>
    \/ WSSocketOpen /\ UNCHANGED <<tbVars, ebVars, sseVars, storeVars, subVars, pollVars>>
    \/ WSInbound /\ UNCHANGED <<tbVars, ebVars, sseVars, storeVars, subVars, pollVars>>
    \/ WSSocketFault /\ UNCHANGED <<tbVars, ebVars, sseVars, storeVars, subVars, pollVars>>
    \/ WSSocketClose /\ UNCHANGED <<tbVars, ebVars, sseVars, storeVars, subVars, pollVars>>
    \/ WSRetryElapsed /\ UNCHANGED <<tbVars, ebVars, sseVars, storeVars, subVars, pollVars>>

\* the queue scenario: the operations that touch the OutboundQueue, with enough
\* queued messages for more than two batches, over the transport that
\* connect() makes with webSocket() of rxjs (no write raises); the retry
\* pipeline gives up on the first socket failure (maxRetryAttempts = 0)
WSQNext ==
    \/ /\ IF WSTransportUsable(wsConnection) THEN wsEnv.direct < MaxDirectSendsFlush
                                             ELSE wsEnv.queued < MaxQueuedSendsFlush
       /\ \E writeThrows \in BOOLEAN : WSSend(writeThrows)
       /\ UNCHANGED <<tbVars, ebVars, sseVars, storeVars, subVars, pollVars>>
    \/ WSConnect /\ UNCHANGED <<tbVars, ebVars, sseVars, storeVars, subVars, pollVars>>
    \/ WSDisconnect /\ UNCHANGED <<tbVars, ebVars, sseVars, storeVars, subVars, pollVars>>
    \/ WSReconnect /\ UNCHANGED <<tbVars, ebVars, sseVars, storeVars, subVars, pollVars>>
    \/ WSFlushWake /\ UNCHANGED <<tbVars, ebVars, sseVars, storeVars, subVars, pollVars>>
    \/ WSSocketFault /\ UNCHANGED <<tbVars, ebVars, sseVars, storeVars, subVars, pollVars>>

\* the listener scenario: one subscriber of the message stream, the
\* lifecycle operations and the transport events; nothing is sent
WSLNext ==
    \/ WSListen /\ UNCHANGED <<tbVars, ebVars, sseVars, storeVars, subVars, pollVars>>
    \/ WSConnect /\ UNCHANGED <<tbVars, ebVars, sseVars, storeVars, subVars, pollVars>>
    \/ WSDisconnect /\ UNCHANGED <<tbVars, ebVars, sseVars, storeVars, subVars, pollVars>>
    \/ WSReconnect /\ UNCHANGED <<tbVars, ebVars, sseVars, storeVars, subVars, pollVars>>
    \/ WSSocketOpen /\ UNCHANGED <<tbVars, ebVars, sseVars, storeVars, subVars, pollVars>>
    \/ WSInbound /\ UNCHANGED <<tbVars, ebVars, sseVars, storeVars, subVars, pollVars>>
    \/ WSSocketFault /\ UNCHANGED <<tbVars, ebVars, sseVars, storeVars, subVars, pollVars>>
    \/ WSSocketClose /\ UNCHANGED <<tbVars, ebVars, sseVars, storeVars, subVars, pollVars>>
    \/ WSRetryElapsed /\ UNCHANGED <<tbVars, ebVars, sseVars, storeVars, subVars, pollVars>>

\* the construction scenario: the listener scenario for every kind of
\* WEBSOCKET_URL; a worker whose constructor threw does not exist
WSCNext ==
    /\ wsEnv.ctorError = Undefined
    /\ WSLNext

(***************************************************************************)
(* ServerSentEventWorker                                                   *)
(*                                                                         *)
(* The worker owns one TimeoutBackoff, built in the constructor with       *)
(* retryCallback = reconnect() and errorCallback = disconnect() followed   *)
(* by sseEventSubject.complete(): its state is tbVars, and the handlers    *)
(* below run TBTrigger, TBReset and TBTimerFire as their backoff part.     *)
(* An EventSource that was closed, or replaced, raises no more events.     *)
(***************************************************************************)
\* the (type, listener) pairs a caller registers: two listeners of one event
\* type, and one of them on a second type as well
SSEPairs == {<<"tick", "f">>, <<"tick", "g">>, <<"tock", "f">>}

\* timeoutBackoffConfigs as the model explores them; the worker always passes
\* an errorCallback
SSEConfigs ==
    [maxRetries : 0..1,
     initialDelay : {10},
     maxDelay : {30},
     hasErrorCallback : {TRUE}]

\* `new ReplaySubject(1)`
SSENewSubject == [stopped |-> FALSE, hasError |-> FALSE, last |-> Undefined]

\* `sseEventSource && sseEventSource.readyState !== EventSource.CLOSED`
SSEChannelLive(es) == es \in {"connecting", "open"}

\* get isDisconnected
SSEIsDisconnected(es) == ~SSEChannelLive(es)

\* the catch block of onmessage: `this.eventSubject.error(new Error(...))`
SSEOnParseFailure(subject) ==
    IF subject.stopped THEN subject
    ELSE [subject EXCEPT !.stopped = TRUE, !.hasError = TRUE]

SSEEnvInit ==
    [ops |-> 0,             \* caller operations so far
     frames |-> 0,          \* inbound frames so far: the next one is frames + 1
     lastValid |-> 0,       \* last envelope published on the current channel (0: none)
     lastEver |-> 0,        \* last envelope published on any channel (0: none)
     reconnected |-> FALSE, \* the current channel was opened by reconnect()
     halted |-> "no",       \* "fatal" / "caller": the errorCallback / the caller
                            \* disconnected last, and the caller has not called
                            \* connect() or reconnect() since
     listenerOps |-> 0,     \* addEventListener / removeEventListener calls so far
     wanted |-> {},         \* the pairs added and not removed since
     last |-> "constructor"]

\* the state after the constructor, which ends with connect()
SSEInit ==
    /\ sseEventSource = "connecting"
    /\ sseEventSubject = SSENewSubject
    /\ isSubjectClosed = FALSE
    /\ sseListener = ListenerInit
    /\ customEventListeners = <<>>
    /\ sseRegistered = {}
    /\ sseEnv = SSEEnvInit

\* a mutant of the registration loop
SSERegisterNone(list) == {}
\* `customEventListeners.forEach(({type, listener}) => addEventListener(...))`
\* on a new EventSource, which keeps one registration per (type, listener)
SSERegisterAll(list) == {list[i] : i \in 1..Len(list)}

\* `customEventListeners.filter(l => l.type !== type || l.listener !== listener)`
SSEFilterOut(list, pair) ==
    SelectSeq(list, LAMBDA l : l[1] # pair[1] \/ l[2] # pair[2])

\* ReplaySubject.complete()
ReplayComplete(subject) == [subject EXCEPT !.stopped = TRUE]

\* the part of connect() after the already-open test (lines 146-192)
SSEOpenChannel(env) ==
    /\ isSubjectClosed' = FALSE
    /\ sseEventSubject' = SSENewSubject
    /\ sseEventSource' = "connecting"
    /\ sseListener' = ListenerOrphan(sseListener)
    /\ sseRegistered' = SSERegisterAll(customEventListeners)
    /\ UNCHANGED customEventListeners
    /\ sseEnv' = [env EXCEPT !.lastValid = 0]

\* connect()
SSEConnect ==
    /\ sseEnv.ops < MaxSseOps
    /\ LET env == [sseEnv EXCEPT !.ops = @ + 1, !.halted = "no", !.last = "connect"]
       IN  IF SSEChannelLive(sseEventSource)
           THEN \* 'SSE connection already open.'
                /\ sseEnv' = env
                /\ UNCHANGED <<sseEventSource, sseEventSubject, isSubjectClosed,
                               sseListener, customEventListeners, sseRegistered>>
           ELSE SSEOpenChannel([env EXCEPT !.reconnected = FALSE])
    /\ UNCHANGED <<tbVars, ebVars, wsVars, storeVars, subVars, pollVars>>

\* disconnect(): close the EventSource unless it is closed already, forget it
SSEDisconnect ==
    /\ sseEnv.ops < MaxSseOps
    /\ sseEventSource' = "undefined"
    /\ sseRegistered' = {}
    /\ sseEnv' = [sseEnv EXCEPT !.ops = @ + 1, !.halted = "caller",
                                !.last = "disconnect"]
    /\ UNCHANGED <<sseEventSubject, isSubjectClosed, sseListener,
                   customEventListeners>>
    /\ UNCHANGED <<tbVars, ebVars, wsVars, storeVars, subVars, pollVars>>

\* reconnect(): disconnect(); connect()
SSEReconnect ==
    /\ sseEnv.ops < MaxSseOps
    /\ SSEOpenChannel([sseEnv EXCEPT !.ops = @ + 1, !.reconnected = TRUE,
                                     !.halted = "no", !.last = "reconnect"])
    /\ UNCHANGED <<tbVars, ebVars, wsVars, storeVars, subVars, pollVars>>

\* cleanOnDestroy(): disconnect(); completeSubject()
SSECleanOnDestroy ==
    /\ sseEnv.ops < MaxSseOps
    /\ sseEventSource' = "undefined"
    /\ isSubjectClosed' = TRUE
    /\ IF isSubjectClosed
       THEN UNCHANGED <<sseEventSubject, sseListener>>
       ELSE /\ sseEventSubject' = ReplayComplete(sseEventSubject)
            /\ sseListener' = IF sseEventSubject.stopped THEN sseListener
                              ELSE ListenerComplete(sseListener)
    /\ sseRegistered' = {}
    /\ sseEnv' = [sseEnv EXCEPT !.ops = @ + 1, !.halted = "caller",
                                !.last = "cleanOnDestroy"]
    /\ UNCHANGED customEventListeners
    /\ UNCHANGED <<tbVars, ebVars, wsVars, storeVars, subVars, pollVars>>

\* listen$() (or pickMessage / pickAndMapMessage with a filter that accepts
\* every envelope) and subscribe()
SSEListen ==
    /\ sseListener.bound = "none"
    /\ sseListener' = ListenerAttach(sseEventSubject, sseEventSubject.hasError)
    /\ sseEnv' = [sseEnv EXCEPT !.last = "listen"]
    /\ UNCHANGED <<sseEventSource, sseEventSubject, isSubjectClosed,
                   customEventListeners, sseRegistered>>
    /\ UNCHANGED <<tbVars, ebVars, wsVars, storeVars, subVars, pollVars>>

\* onmessage with a frame whose data is (wellFormed) or is not valid JSON
SSEOnMessage(wellFormed) ==
    /\ sseEventSource = "open"
    /\ sseEnv.frames < MaxFrames
    /\ LET m == sseEnv.frames + 1
           published == wellFormed /\ ~isSubjectClosed /\ ~sseEventSubject.stopped
       IN  /\ IF isSubjectClosed
              THEN UNCHANGED <<sseEventSubject, sseListener>>
              ELSE IF wellFormed
              THEN /\ sseEventSubject' = ReplayNext(sseEventSubject, m)
                   /\ sseListener' = ListenerNext(sseListener, sseEventSubject, m)
              ELSE \* JSON.parse throws: catch, eventSubject.error(...)
                   /\ sseEventSubject' = SSEOnParseFailure(sseEventSubject)
                   /\ sseListener' = IF sseEventSubject.stopped THEN sseListener
                                     ELSE ListenerError(sseListener)
           /\ sseEnv' = [sseEnv EXCEPT
                            !.frames = m,
                            !.lastValid = IF published THEN m ELSE @,
                            !.lastEver = IF published THEN m ELSE @,
                            !.last = IF wellFormed THEN "message" ELSE "badframe"]
    /\ UNCHANGED <<sseEventSource, isSubjectClosed, customEventListeners,
                   sseRegistered>>
    /\ UNCHANGED <<tbVars, ebVars, wsVars, storeVars, subVars, pollVars>>

\* onopen: timeoutBackoff(true)
SSEOnOpen ==
    /\ sseEventSource = "connecting"
    /\ tbCalls < MaxSseBackoffCalls
    /\ sseEventSource' = "open"
    /\ TBReset
    /\ sseEnv' = [sseEnv EXCEPT !.last = "open"]
    /\ UNCHANGED <<sseEventSubject, isSubjectClosed, sseListener,
                   customEventListeners, sseRegistered>>
    /\ UNCHANGED <<ebVars, wsVars, storeVars, subVars, pollVars>>

\* onerror.  The transport either keeps the EventSource and reconnects by
\* itself (readyState CONNECTING) or gives it up (readyState CLOSED); both
\* branches of the handler call the backoff function without reset.  When the
\* backoff is exhausted its errorCallback runs: disconnect(), then
\* sseEventSubject.complete().
SSEOnError(givenUp) ==
    /\ SSEChannelLive(sseEventSource)
    /\ tbCalls < MaxSseBackoffCalls
    /\ TBTrigger
    /\ IF TBExhausted(retries', tbCfg.maxRetries)
       THEN /\ sseEventSource' = "undefined"
            /\ sseRegistered' = {}
            /\ sseEventSubject' = ReplayComplete(sseEventSubject)
            /\ sseListener' = IF sseEventSubject.stopped THEN sseListener
                              ELSE ListenerComplete(sseListener)
            /\ sseEnv' = [sseEnv EXCEPT !.halted = "fatal", !.last = "fatal"]
       ELSE /\ sseEventSource' = IF givenUp THEN "closed" ELSE "connecting"
            /\ sseEnv' = [sseEnv EXCEPT !.last = "error"]
            /\ UNCHANGED <<sseEventSubject, sseListener, sseRegistered>>
    /\ UNCHANGED <<isSubjectClosed, customEventListeners>>
    /\ UNCHANGED <<ebVars, wsVars, storeVars, subVars, pollVars>>

\* a backoff timer fires: retryCallback, that is reconnect()
SSETimerFire ==
    /\ TBTimerFire
    /\ SSEOpenChannel([sseEnv EXCEPT !.reconnected = TRUE, !.last = "retry"])
    /\ UNCHANGED <<ebVars, wsVars, storeVars, subVars, pollVars>>

\* resetBackoff(): timeoutBackoff(true)
SSEResetBackoff ==
    /\ sseEnv.ops < MaxSseOps
    /\ tbCalls < MaxSseBackoffCalls
    /\ TBReset
    /\ sseEnv' = [sseEnv EXCEPT !.ops = @ + 1, !.last = "resetBackoff"]
    /\ UNCHANGED <<sseEventSource, sseEventSubject, isSubjectClosed, sseListener,
                   customEventListeners, sseRegistered>>
    /\ UNCHANGED <<ebVars, wsVars, storeVars, subVars, pollVars>>

\* addEventListener(type, listener)
SSEAddEventListener(pair) ==
    /\ sseEnv.listenerOps < MaxListenerOps
    /\ customEventListeners' = Append(customEventListeners, pair)
    /\ sseRegistered' = IF sseEventSource = "undefined" THEN sseRegistered
                        ELSE sseRegistered \cup {pair}
    /\ sseEnv' = [sseEnv EXCEPT !.listenerOps = @ + 1, !.wanted = @ \cup {pair},
                                !.last = "addEventListener"]
    /\ UNCHANGED <<sseEventSource, sseEventSubject, isSubjectClosed, sseListener>>
    /\ UNCHANGED <<tbVars, ebVars, wsVars, storeVars, subVars, pollVars>>

\* removeEventListener(type, listener)
SSERemoveEventListener(pair) ==
    /\ sseEnv.listenerOps < MaxListenerOps
    /\ customEventListeners' = SSEFilterOut(customEventListeners, pair)
    /\ sseRegistered' = IF sseEventSource = "undefined" THEN sseRegistered
                        ELSE sseRegistered \ {pair}
    /\ sseEnv' = [sseEnv EXCEPT !.listenerOps = @ + 1, !.wanted = @ \ {pair},
                                !.last = "removeEventListener"]
    /\ UNCHANGED <<sseEventSource, sseEventSubject, isSubjectClosed, sseListener>>
    /\ UNCHANGED <<tbVars, ebVars, wsVars, storeVars, subVars, pollVars>>

SSENext ==
    \/ SSEConnect
    \/ SSEDisconnect
    \/ SSEReconnect
    \/ SSECleanOnDestroy
    \/ SSEListen
    \/ \E wellFormed \in BOOLEAN : SSEOnMessage(wellFormed)
    \/ SSEOnOpen
    \/ \E givenUp \in BOOLEAN : SSEOnError(givenUp)
    \/ SSETimerFire
    \/ SSEResetBackoff

\* the custom-listener scenario: registration calls, the caller's connection
\* calls, transport errors and the backoff's reconnects
SSELNext ==
    \/ \E pair \in SSEPairs : SSEAddEventListener(pair)
    \/ \E pair \in SSEPairs : SSERemoveEventListener(pair)
    \/ SSEConnect
    \/ SSEDisconnect
    \/ SSEReconnect
    \/ \E givenUp \in BOOLEAN : SSEOnError(givenUp)
    \/ SSETimerFire

(***************************************************************************)
(* StoreWorker                                                             *)
(*                                                                         *)
(* A JavaScript value is a record [kind, atom, fields, id, frozen]: a      *)
(* string (atom), undefined, or a plain object whose fields are a sequence *)
(* of <<name, value>> pairs in property order.  `id` is the identity of an *)
(* object: two objects with the same id are one object, so a write by the  *)
(* caller through one is seen through the other.  `frozen` is the effect   *)
(* of Object.freeze.  The values the model uses are JSON data, which       *)
(* DeepCopyPrimitive copies exactly.                                       *)
(***************************************************************************)
JsUndefined ==
    [kind |-> "undefined", atom |-> "", fields |-> <<>>, id |-> "-", frozen |-> FALSE]
JsString(s) ==
    [kind |-> "string", atom |-> s, fields |-> <<>>, id |-> "-", frozen |-> FALSE]
JsObject(fs, id) ==
    [kind |-> "object", atom |-> "", fields |-> fs, id |-> id, frozen |-> FALSE]

\* Object.prototype.hasOwnProperty on a data structure (Immutable `has`): a
\* string has no keys
HasOwn(v, name) ==
    v.kind = "object" /\ \E i \in 1..Len(v.fields) : v.fields[i][1] = name
\* v[name] of an own property
Field(v, name) ==
    v.fields[CHOOSE i \in 1..Len(v.fields) : v.fields[i][1] = name][2]
\* a mutant of the property write: the other properties are lost
WithFieldAlone(v, name, w) == [v EXCEPT !.fields = <<<<name, w>>>>]
\* a copy of v with v[name] = w: an existing property keeps its position, a
\* new one is added last
WithField(v, name, w) ==
    IF HasOwn(v, name)
    THEN [v EXCEPT !.fields = [i \in 1..Len(v.fields) |->
                IF v.fields[i][1] = name THEN <<name, w>> ELSE v.fields[i]]]
    ELSE [v EXCEPT !.fields = Append(v.fields, <<name, w>>)]

RECURSIVE DeepCopyPrimitive(_, _)
\* DeepCopyPrimitive(v): the same contents in new, unfrozen objects (id names
\* the new object graph)
DeepCopyPrimitive(v, id) ==
    IF v.kind # "object" THEN v
    ELSE [kind |-> "object", atom |-> "",
          fields |-> [i \in 1..Len(v.fields) |->
                        <<v.fields[i][1], DeepCopyPrimitive(v.fields[i][2], id)>>],
          id |-> id, frozen |-> FALSE]

RECURSIVE DeepFreezePrimitive(_)
\* DeepFreezePrimitive(v): freezes v and every object below it, returns v
DeepFreezePrimitive(v) ==
    IF v.kind # "object" THEN v
    ELSE [v EXCEPT !.fields = [i \in 1..Len(v.fields) |->
                        <<v.fields[i][1], DeepFreezePrimitive(v.fields[i][2])>>],
                   !.frozen = TRUE]

RECURSIVE JsonStringify(_)
RECURSIVE JsonMembers(_, _)
\* the members of an object from the i-th on, in property order
JsonMembers(fs, i) ==
    IF i > Len(fs) THEN <<>>
    ELSE (IF i > 1 THEN <<",">> ELSE <<>>)
         \o <<"\"", fs[i][1], "\"", ":">> \o JsonStringify(fs[i][2])
         \o JsonMembers(fs, i + 1)
\* JSON.stringify(v) as a sequence of tokens; JSON.stringify(undefined) is
\* undefined, no string
JsonStringify(v) ==
    IF v.kind = "undefined" THEN <<"undefined">>
    ELSE IF v.kind = "string" THEN <<"\"", v.atom, "\"">>
    ELSE <<"{">> \o JsonMembers(v.fields, 1) \o <<"}">>

\* get map(): Map(DeepCopyPrimitive(state$.getValue())); the model keeps the
\* copied object and reads the Map through HasOwn / Field
StoreMap(snapshot, id) == DeepCopyPrimitive(snapshot, id)

\* a mutant of the state getter: the internal object itself
StoreStateGetterLeaks(snapshot) == snapshot
\* get state(): DeepFreezePrimitive(this.map.toObject())
StoreStateGetter(snapshot) == DeepFreezePrimitive(StoreMap(snapshot, "read"))

\* Map.get(key, notSetValue)
MapGet(m, key, notSetValue) == IF HasOwn(m, key) THEN Field(m, key) ELSE notSetValue

RECURSIVE MapGetIn(_, _, _)
\* Map.getIn(searchKeyPath, notSetValue): plain objects below the Map are
\* walked by their own properties; the empty path yields the collection
MapGetIn(m, path, notSetValue) ==
    IF path = <<>> THEN m
    ELSE IF HasOwn(m, Head(path))
         THEN MapGetIn(Field(m, Head(path)), Tail(path), notSetValue)
         ELSE notSetValue

\* a mutant of hasIn: only the first key is looked up
MapHasInFirstKey(m, path) == path = <<>> \/ HasOwn(m, Head(path))
RECURSIVE MapHasIn(_, _)
\* Map.hasIn(searchKeyPath): getIn(searchKeyPath, NOT_SET) !== NOT_SET
MapHasIn(m, path) ==
    IF path = <<>> THEN TRUE
    ELSE HasOwn(m, Head(path)) /\ MapHasIn(Field(m, Head(path)), Tail(path))

RECURSIVE MapSetIn(_, _, _)
\* Map.setIn(searchKeyPath, value): new objects along the path
MapSetIn(m, path, w) ==
    IF path = <<>> THEN w
    ELSE WithField(m, Head(path),
                   MapSetIn(IF HasOwn(m, Head(path)) THEN Field(m, Head(path))
                            ELSE JsObject(<<>>, m.id),
                            Tail(path), w))

RECURSIVE SplitDots(_)
\* String.prototype.split('.') of a string given as its segments and dots
SplitDots(tokens) ==
    IF tokens = <<>> THEN <<"">>
    ELSE IF Head(tokens) = "." THEN <<"">> \o SplitDots(Tail(tokens))
    ELSE IF Len(tokens) = 1 THEN tokens
    ELSE <<Head(tokens)>> \o SplitDots(Tail(Tail(tokens)))

\* PrepSearchKeyPath: a string is split at the dots, an array is taken as it
\* is, anything else is the empty path
PrepSearchKeyPath(searchKeyPath) ==
    IF searchKeyPath.form = "string" THEN SplitDots(searchKeyPath.tokens)
    ELSE IF searchKeyPath.form = "array" THEN searchKeyPath.tokens
    ELSE <<>>

\* a mutant of the default comparer: nothing is a repetition
StoreDefaultComparerNever(prev, curr) == FALSE
\* `(prev, curr) => JSON.stringify(prev) === JSON.stringify(curr)`
StoreDefaultComparer(prev, curr) == JsonStringify(prev) = JsonStringify(curr)

\* A subscriber of select$(key) with default options: key, whether it has
\* subscribed, and the values it has received.
StoreSubInit == [key |-> "", active |-> FALSE, got |-> <<>>]

\* state$.next(snapshot) as seen by the subscriber.  data$ lets every
\* snapshot pass (each is a new object); map$ copies and freezes it; select$
\* picks the value at key and drops it when the comparer calls it a repetition
\* of the value delivered last.
StoreSelectNext(sub, snapshot) ==
    IF ~sub.active THEN sub
    ELSE LET v == MapGet(DeepFreezePrimitive(StoreMap(snapshot, "read")),
                         sub.key, JsUndefined)
         IN  IF sub.got # <<>> /\ StoreDefaultComparer(sub.got[Len(sub.got)], v)
             THEN sub
             ELSE [sub EXCEPT !.got = Append(@, v)]

RECURSIVE AliasedWrite(_, _, _)
\* what a write by the caller to the object `id` makes of v: the object is
\* replaced by its new contents wherever v holds that very object
AliasedWrite(v, id, new) ==
    IF v.kind # "object" THEN v
    ELSE IF v.id = id THEN new
    ELSE [v EXCEPT !.fields = [i \in 1..Len(v.fields) |->
                        <<v.fields[i][1], AliasedWrite(v.fields[i][2], id, new)>>]]

\* ---- the inputs the model explores ----
StoreXY(id) == JsObject(<<<<"x", JsString("a")>>, <<"y", JsString("b")>>>>, id)
StoreYX(id) == JsObject(<<<<"y", JsString("b")>>, <<"x", JsString("a")>>>>, id)
\* values handed to set: a string, and one object in two property orders
StoreValues == {JsString("a"), StoreXY("caller"), StoreYX("caller")}
\* values handed to setIn
StoreSetInValues == {JsString("b"), StoreYX("caller")}
\* keys: two of the initial state, one that is in no state, and the empty string
StoreKeys == {"k1", "k2", "zz", ""}
\* the constructor's argument
StoreInitialStates ==
    {JsObject(<<<<"k1", JsString("a")>>, <<"k2", StoreXY("initial")>>>>, "initial"),
     JsObject(<<<<"k1", JsString("a")>>>>, "initial")}
\* the states a caller builds for resetWithState: the shape of the initial
\* state, and one without k2 and with another key
StoreCallerStates ==
    {JsObject(<<<<"k1", JsString("b")>>, <<"k2", StoreYX("caller")>>>>, "caller"),
     JsObject(<<<<"k1", JsString("b")>>, <<"extra", JsString("a")>>>>, "caller")}
\* search key paths: arrays, dotted strings, and a value of another type
StorePaths ==
    {[form |-> "array", tokens |-> t] :
        t \in {<<>>, <<"k1">>, <<"k2", "x">>, <<"k2", "q">>, <<"zz", "x">>,
               <<"k1", "x">>}}
    \cup {[form |-> "string", tokens |-> t] : t \in {<<>>, <<"k2", ".", "y">>}}
    \cup {[form |-> "other", tokens |-> <<>>]}
\* notSetValue: omitted (undefined) or given
StoreNotSetValues == {JsUndefined, JsString("d")}

StoreEnvInit(initialState) ==
    [ops |-> 0,             \* calls so far
     last |-> "constructor",\* the last call
     key |-> "",            \* its key argument
     path |-> <<>>,         \* its prepared search key path
     arg |-> JsUndefined,   \* its value / state / notSetValue argument
     result |-> JsUndefined,\* what it returned
     threw |-> FALSE,       \* whether it threw
     nexts |-> 0,           \* state$.next calls so far
     passed |-> FALSE,      \* the object the caller keeps has been given to
                            \* set, setIn or resetWithState
     constructed |-> DeepCopyPrimitive(initialState, "history")]

\* the state after `new StoreWorker(initialState)`: the field keeps the
\* caller's object, the BehaviorSubject starts with a copy of it
StoreInitWith(initialStates) ==
    /\ storeInitial \in initialStates
    /\ storeState = DeepCopyPrimitive(storeInitial, "snapshot")
    /\ storeHeld = JsUndefined
    /\ storeSub = StoreSubInit
    /\ storeEnv = StoreEnvInit(storeInitial)

\* state$.next(DeepFreezePrimitive(snapshot)) and what follows from it
StorePublish(snapshot, env) ==
    /\ storeState' = DeepFreezePrimitive(snapshot)
    /\ storeSub' = StoreSelectNext(storeSub, storeState')
    /\ storeEnv' = [env EXCEPT !.nexts = @ + 1]

\* a call that throws before it reaches state$.next
StoreThrow(env) ==
    /\ storeEnv' = [env EXCEPT !.threw = TRUE]
    /\ UNCHANGED <<storeState, storeSub>>

\* set(key, value)
StoreSet(key, value) ==
    /\ storeEnv.ops < MaxStoreOps
    /\ LET env == [storeEnv EXCEPT !.ops = @ + 1, !.last = "set", !.key = key,
                                   !.path = <<>>, !.arg = value,
                                   !.result = JsUndefined, !.threw = FALSE,
                                   !.passed = @ \/ value = storeHeld]
           map == StoreMap(storeState, "snapshot")
       IN  IF key = "" THEN StoreThrow(env)              \* EmptyString(key)
           ELSE IF ~HasOwn(map, key) THEN StoreThrow(env) \* !this.map.has(key)
           ELSE StorePublish(
                   WithField(map, key, DeepCopyPrimitive(value, "snapshot")), env)
    /\ UNCHANGED <<storeInitial, storeHeld>>
    /\ UNCHANGED <<tbVars, ebVars, wsVars, sseVars, subVars, pollVars>>

\* setIn(searchKeyPath, value)
StoreSetIn(searchKeyPath, value) ==
    /\ storeEnv.ops < MaxStoreOps
    /\ LET path == PrepSearchKeyPath(searchKeyPath)
           env == [storeEnv EXCEPT !.ops = @ + 1, !.last = "setIn", !.key = "",
                                   !.path = path, !.arg = value,
                                   !.result = JsUndefined, !.threw = FALSE,
                                   !.passed = @ \/ value = storeHeld]
           map == StoreMap(storeState, "snapshot")
       IN  IF path = <<>> THEN StoreThrow(env)              \* EmptyArray
           ELSE IF ~MapHasIn(map, path) THEN StoreThrow(env)
           ELSE StorePublish(
                   MapSetIn(map, path, DeepCopyPrimitive(value, "snapshot")), env)
    /\ UNCHANGED <<storeInitial, storeHeld>>
    /\ UNCHANGED <<tbVars, ebVars, wsVars, sseVars, subVars, pollVars>>

\* get(key, notSetValue): logs when the key is absent, never throws
StoreGet(key, notSetValue) ==
    /\ storeEnv.ops < MaxStoreOps
    /\ storeEnv' = [storeEnv EXCEPT
                      !.ops = @ + 1, !.last = "get", !.key = key, !.path = <<>>,
                      !.arg = notSetValue, !.threw = FALSE,
                      !.result = MapGet(StoreMap(storeState, "read"), key,
                                        notSetValue)]
    /\ UNCHANGED <<storeInitial, storeState, storeHeld, storeSub>>
    /\ UNCHANGED <<tbVars, ebVars, wsVars, sseVars, subVars, pollVars>>

\* getIn(searchKeyPath, notSetValue): logs when the path is absent, never throws
StoreGetIn(searchKeyPath, notSetValue) ==
    /\ storeEnv.ops < MaxStoreOps
    /\ LET path == PrepSearchKeyPath(searchKeyPath)
       IN  storeEnv' = [storeEnv EXCEPT
                          !.ops = @ + 1, !.last = "getIn", !.key = "",
                          !.path = path, !.arg = notSetValue, !.threw = FALSE,
                          !.result = MapGetIn(StoreMap(storeState, "read"), path,
                                              notSetValue)]
    /\ UNCHANGED <<storeInitial, storeState, storeHeld, storeSub>>
    /\ UNCHANGED <<tbVars, ebVars, wsVars, sseVars, subVars, pollVars>>

\* a mutant of reset(): the current snapshot once more
StoreResetFromCurrent(initialState, current) == current
\* `this.initialState`, the state reset() copies
StoreResetFrom(initialState, current) == initialState

\* reset()
StoreReset ==
    /\ storeEnv.ops < MaxStoreOps
    /\ StorePublish(DeepCopyPrimitive(StoreResetFrom(storeInitial, storeState),
                                      "snapshot"),
                    [storeEnv EXCEPT !.ops = @ + 1, !.last = "reset", !.key = "",
                                     !.path = <<>>, !.arg = JsUndefined,
                                     !.result = JsUndefined, !.threw = FALSE])
    /\ UNCHANGED <<storeInitial, storeHeld>>
    /\ UNCHANGED <<tbVars, ebVars, wsVars, sseVars, subVars, pollVars>>

\* resetWithState(state)
StoreResetWithState(state) ==
    /\ storeEnv.ops < MaxStoreOps
    /\ StorePublish(DeepCopyPrimitive(state, "snapshot"),
                    [storeEnv EXCEPT !.ops = @ + 1, !.last = "resetWithState",
                                     !.key = "", !.path = <<>>, !.arg = state,
                                     !.result = JsUndefined, !.threw = FALSE,
                                     !.passed = @ \/ state = storeHeld])
    /\ UNCHANGED <<storeInitial, storeHeld>>
    /\ UNCHANGED <<tbVars, ebVars, wsVars, sseVars, subVars, pollVars>>

\* select$(key).subscribe(): the BehaviorSubject hands out its current value
StoreSelect(key) ==
    /\ ~storeSub.active
    /\ storeSub' = StoreSelectNext([key |-> key, active |-> TRUE, got |-> <<>>],
                                   storeState)
    /\ storeEnv' = [storeEnv EXCEPT !.last = "select$", !.key = key]
    /\ UNCHANGED <<storeInitial, storeState, storeHeld>>
    /\ UNCHANGED <<tbVars, ebVars, wsVars, sseVars, subVars, pollVars>>

\* the caller reads store.state and keeps the object
StoreReadState ==
    /\ storeEnv.ops < MaxStoreOps
    /\ storeHeld' = StoreStateGetter(storeState)
    /\ storeEnv' = [storeEnv EXCEPT !.ops = @ + 1, !.last = "state", !.key = "",
                                    !.path = <<>>, !.arg = JsUndefined,
                                    !.result = storeHeld', !.threw = FALSE]
    /\ UNCHANGED <<storeInitial, storeState, storeSub>>
    /\ UNCHANGED <<tbVars, ebVars, wsVars, sseVars, subVars, pollVars>>

\* the caller builds an object of its own and keeps it
StoreCallerMake(obj) ==
    /\ storeHeld = JsUndefined
    /\ storeHeld' = obj
    /\ storeEnv' = [storeEnv EXCEPT !.last = "make"]
    /\ UNCHANGED <<storeInitial, storeState, storeSub>>
    /\ UNCHANGED <<tbVars, ebVars, wsVars, sseVars, subVars, pollVars>>

\* the caller assigns to a property of the object it keeps: a frozen object
\* rejects the write, another one changes, and with it whatever holds it
StoreCallerMutate(name, value) ==
    /\ storeEnv.ops < MaxStoreOps
    /\ HasOwn(storeHeld, name)
    /\ Field(storeHeld, name) # value
    /\ LET new == IF storeHeld.frozen THEN storeHeld
                  ELSE WithField(storeHeld, name, value)
       IN  /\ storeHeld' = new
           /\ storeState' = AliasedWrite(storeState, storeHeld.id, new)
           /\ storeInitial' = AliasedWrite(storeInitial, storeHeld.id, new)
    /\ storeEnv' = [storeEnv EXCEPT !.ops = @ + 1, !.last = "mutate", !.key = name,
                                    !.path = <<>>, !.arg = value,
                                    !.result = JsUndefined,
                                    !.threw = storeHeld.frozen]
    /\ UNCHANGED storeSub
    /\ UNCHANGED <<tbVars, ebVars, wsVars, sseVars, subVars, pollVars>>

\* the caller assigns to a property of the object it passed to the constructor,
\* which is the object the store keeps as initialState
StoreMutateInitial(name, value) ==
    /\ storeEnv.ops < MaxStoreOps
    /\ HasOwn(storeInitial, name)
    /\ Field(storeInitial, name) # value
    /\ storeInitial' = WithField(storeInitial, name, value)
    /\ storeEnv' = [storeEnv EXCEPT !.ops = @ + 1, !.last = "mutateInitial",
                                    !.key = name, !.path = <<>>, !.arg = value,
                                    !.result = JsUndefined, !.threw = FALSE]
    /\ UNCHANGED <<storeState, storeHeld, storeSub>>
    /\ UNCHANGED <<tbVars, ebVars, wsVars, sseVars, subVars, pollVars>>

\* reads, updates and one select$ subscriber
StoreNext ==
    \/ \E key \in StoreKeys, value \in StoreValues : StoreSet(key, value)
    \/ \E searchKeyPath \in StorePaths, value \in StoreSetInValues :
          StoreSetIn(searchKeyPath, value)
    \/ \E key \in StoreKeys, notSetValue \in StoreNotSetValues :
          StoreGet(key, notSetValue)
    \/ \E searchKeyPath \in StorePaths, notSetValue \in StoreNotSetValues :
          StoreGetIn(searchKeyPath, notSetValue)
    \/ StoreReset
    \/ \E state \in StoreCallerStates : StoreResetWithState(state)
    \/ \E key \in StoreKeys \ {""} : StoreSelect(key)

\* the caller keeps objects it got from, or gave to, the store and writes
\* to them
StoreMNext ==
    \/ StoreReadState
    \/ \E obj \in StoreCallerStates \cup {StoreXY("caller")} : StoreCallerMake(obj)
    \/ \E name \in StoreKeys \cup {"x"} : StoreCallerMutate(name, JsString("m"))
    \/ \E name \in StoreKeys : StoreMutateInitial(name, JsString("m"))
    \/ \E key \in StoreKeys : storeHeld # JsUndefined /\ StoreSet(key, storeHeld)
    \/ storeHeld # JsUndefined
       /\ StoreSetIn([form |-> "array", tokens |-> <<"k2", "x">>], storeHeld)
    \/ storeHeld.id = "caller" /\ HasOwn(storeHeld, "k1")
       /\ StoreResetWithState(storeHeld)
    \/ StoreReset

(***************************************************************************)
(* SubscriptionWorker                                                      *)
(***************************************************************************)
\* the subscriptions of the caller
SWSubs == {"s1", "s2", "s3"}
\* an object without an unsubscribe method
SWPlain == "plain"
SWValues == SWSubs \cup {SWPlain}
SWKeys == {"k1", "k2"}

\* ofSubscriptionLikeType(sub)
OfSubscriptionLikeType(sub) == sub \in SWSubs

\* unmanagedSubscription(sub)
UnmanagedSubscription(set, sub) ==
    OfSubscriptionLikeType(sub) /\ \A i \in DOMAIN set : set[i] # sub

\* unmappedSubscription(sub)
UnmappedSubscription(map, sub) ==
    OfSubscriptionLikeType(sub) /\ \A i \in DOMAIN map : map[i][2] # sub

\* `this.subs.add(sub)` for every unmanaged element of the arguments, in order
RECURSIVE SWAddAll(_, _)
SWAddAll(set, list) ==
    IF list = <<>> THEN set
    ELSE SWAddAll(IF UnmanagedSubscription(set, Head(list))
                  THEN Append(set, Head(list)) ELSE set,
                  Tail(list))

\* Map.prototype.get: the subscriptions under the key (none or one)
SWMapGet(map, key) == {map[i][2] : i \in {j \in DOMAIN map : map[j][1] = key}}

\* Map.prototype.set: a key that is present keeps its place and gets the value
SWMapSet(map, key, sub) ==
    IF \E i \in DOMAIN map : map[i][1] = key
    THEN [i \in DOMAIN map |-> IF map[i][1] = key THEN <<key, sub>> ELSE map[i]]
    ELSE Append(map, <<key, sub>>)

\* Map.prototype.delete
SWMapDelete(map, key) ==
    LET Other(e) == e[1] # key
    IN  SelectSeq(map, Other)

\* the values of the map, in order
SWMapValues(map) == [i \in DOMAIN map |-> map[i][2]]

SWUnsubscribeEachStopsAtThrow(list, calls, throwers) ==
    LET thrown == {i \in DOMAIN list : list[i] \in throwers}
        done == {i \in DOMAIN list : \A j \in thrown : i <= j}
    IN  [calls |-> [s \in SWSubs |->
                      calls[s] + Cardinality({i \in done : list[i] = s})],
         thrown |-> {list[i] : i \in thrown \cap done}]
\* forEach((sub) => this.unsubscribeOne(sub)): unsubscribe() is called on
\* every element; unsubscribeOne catches what it throws and logs it
SWUnsubscribeEach(list, calls, throwers) ==
    [calls |-> [s \in SWSubs |->
                  calls[s] + Cardinality({i \in DOMAIN list : list[i] = s})],
     thrown |-> {list[i] : i \in DOMAIN list} \cap throwers]

SWEnvInit ==
    [ops |-> 0,          \* calls so far
     last |-> "constructor",
     accepted |-> {},    \* the subscriptions that map() stored
     thrown |-> {}]      \* the subscriptions whose unsubscribe() threw in the
                         \* last call

SWInit ==
    /\ subs = <<>>
    /\ mappedSubs = <<>>
    /\ swCalls = [s \in SWSubs |-> 0]
    /\ swEnv = SWEnvInit

\* set sink(sub)
SWSink(sub) ==
    /\ swEnv.ops < MaxSubOps
    /\ subs' = SWAddAll(subs, <<sub>>)
    /\ swEnv' = [swEnv EXCEPT !.ops = @ + 1, !.last = "sink", !.thrown = {}]
    /\ UNCHANGED <<mappedSubs, swCalls>>

\* add(...subs)
SWAdd(list) ==
    /\ swEnv.ops < MaxSubOps
    /\ subs' = SWAddAll(subs, list)
    /\ swEnv' = [swEnv EXCEPT !.ops = @ + 1, !.last = "add", !.thrown = {}]
    /\ UNCHANGED <<mappedSubs, swCalls>>

\* unsubscribe()
SWUnsubscribe(throwers) ==
    /\ swEnv.ops < MaxSubOps
    /\ LET r == SWUnsubscribeEach(subs, swCalls, throwers)
       IN  /\ swCalls' = r.calls
           /\ swEnv' = [swEnv EXCEPT !.ops = @ + 1, !.last = "unsubscribe",
                                     !.thrown = r.thrown]
    /\ subs' = <<>>
    /\ UNCHANGED mappedSubs

\* map(key, sub)
SWMap(key, sub) ==
    /\ swEnv.ops < MaxSubOps
    /\ IF UnmappedSubscription(mappedSubs, sub)
       THEN /\ mappedSubs' = SWMapSet(mappedSubs, key, sub)
            /\ swEnv' = [swEnv EXCEPT !.ops = @ + 1, !.last = "map", !.thrown = {},
                                      !.accepted = @ \cup {sub}]
       ELSE /\ mappedSubs' = mappedSubs
            /\ swEnv' = [swEnv EXCEPT !.ops = @ + 1, !.last = "map", !.thrown = {}]
    /\ UNCHANGED <<subs, swCalls>>

\* unsubscribeMapped(key)
SWUnsubscribeMapped(key, throwers) ==
    /\ swEnv.ops < MaxSubOps
    /\ LET found == SWMapGet(mappedSubs, key)
           r == SWUnsubscribeEach(IF found = {} THEN <<>>
                                  ELSE <<CHOOSE s \in found : TRUE>>,
                                  swCalls, throwers)
       IN  /\ swCalls' = r.calls
           /\ mappedSubs' = IF found = {} THEN mappedSubs
                            ELSE SWMapDelete(mappedSubs, key)
           /\ swEnv' = [swEnv EXCEPT !.ops = @ + 1, !.last = "unsubscribeMapped",
                                     !.thrown = r.thrown]
    /\ UNCHANGED subs

\* unsubscribeAllMapped()
SWUnsubscribeAllMapped(throwers) ==
    /\ swEnv.ops < MaxSubOps
    /\ LET r == SWUnsubscribeEach(SWMapValues(mappedSubs), swCalls, throwers)
       IN  /\ swCalls' = r.calls
           /\ swEnv' = [swEnv EXCEPT !.ops = @ + 1, !.last = "unsubscribeAllMapped",
                                     !.thrown = r.thrown]
    /\ mappedSubs' = <<>>
    /\ UNCHANGED subs

\* the argument lists of add(): none, one or two values
SWAddLists ==
    {<<>>} \cup {<<a>> : a \in SWValues} \cup {<<a, b>> : a \in SWValues, b \in SWSubs}

SWNext ==
    \/ (\E sub \in SWValues : SWSink(sub))
          /\ UNCHANGED <<tbVars, ebVars, wsVars, sseVars, storeVars, pollVars>>
    \/ (\E list \in SWAddLists : SWAdd(list))
          /\ UNCHANGED <<tbVars, ebVars, wsVars, sseVars, storeVars, pollVars>>
    \/ (\E throwers \in SUBSET SWSubs : SWUnsubscribe(throwers))
          /\ UNCHANGED <<tbVars, ebVars, wsVars, sseVars, storeVars, pollVars>>
    \/ (\E key \in SWKeys, sub \in SWValues : SWMap(key, sub))
          /\ UNCHANGED <<tbVars, ebVars, wsVars, sseVars, storeVars, pollVars>>
    \/ (\E key \in SWKeys, throwers \in SUBSET SWSubs : SWUnsubscribeMapped(key, throwers))
          /\ UNCHANGED <<tbVars, ebVars, wsVars, sseVars, storeVars, pollVars>>
    \/ (\E throwers \in SUBSET SWSubs : SWUnsubscribeAllMapped(throwers))
          /\ UNCHANGED <<tbVars, ebVars, wsVars, sseVars, storeVars, pollVars>>

(***************************************************************************)
(* PollingManager: what BootstrapPollingSession returns                    *)
(*                                                                         *)
(* The polling observable is timer(0, interval) piped into the request: it *)
(* never completes, and it errors when a request errors, which closes the  *)
(* subscription that was open.                                             *)
(***************************************************************************)
\* `subscription.closed`
PollClosed(subscriptions) == subscriptions[Len(subscriptions)] = "closed"

\* stop(): `if (!subscription.closed) subscription.unsubscribe()`
PollStopped(subscriptions) ==
    IF ~PollClosed(subscriptions)
    THEN [subscriptions EXCEPT ![Len(subscriptions)] = "closed"]
    ELSE subscriptions

PollResumedAlways(subscriptions) == Append(subscriptions, "open")
\* resume(): `if (subscription.closed) subscription = observable.subscribe()`
PollResumed(subscriptions) ==
    IF PollClosed(subscriptions)
    THEN Append(subscriptions, "open")
    ELSE subscriptions

PollEnvInit == [ops |-> 0, errors |-> 0, last |-> "bootstrap"]

\* BootstrapPollingSession(...): `let subscription = observable.subscribe()`
PollInit ==
    /\ pollSubscriptions = <<"open">>
    /\ pollEnv = PollEnvInit

PollStop ==
    /\ pollEnv.ops < MaxPollOps
    /\ pollSubscriptions' = PollStopped(pollSubscriptions)
    /\ pollEnv' = [pollEnv EXCEPT !.ops = @ + 1, !.last = "stop"]

PollResume ==
    /\ pollEnv.ops < MaxPollOps
    /\ pollSubscriptions' = PollResumed(pollSubscriptions)
    /\ pollEnv' = [pollEnv EXCEPT !.ops = @ + 1, !.last = "resume"]

\* restart(): this.stop(); this.resume()
PollRestart ==
    /\ pollEnv.ops < MaxPollOps
    /\ pollSubscriptions' = PollResumed(PollStopped(pollSubscriptions))
    /\ pollEnv' = [pollEnv EXCEPT !.ops = @ + 1, !.last = "restart"]

\* a request errors: every open subscription of the observable receives the
\* error and is closed
PollSourceError ==
    /\ pollEnv.errors < MaxPollErrors
    /\ \E i \in DOMAIN pollSubscriptions : pollSubscriptions[i] = "open"
    /\ pollSubscriptions' = [i \in DOMAIN pollSubscriptions |-> "closed"]
    /\ pollEnv' = [pollEnv EXCEPT !.errors = @ + 1, !.last = "error"]

PollNext ==
    \/ PollStop /\ UNCHANGED <<tbVars, ebVars, wsVars, sseVars, storeVars, subVars>>
    \/ PollResume /\ UNCHANGED <<tbVars, ebVars, wsVars, sseVars, storeVars, subVars>>
    \/ PollRestart /\ UNCHANGED <<tbVars, ebVars, wsVars, sseVars, storeVars, subVars>>
    \/ PollSourceError /\ UNCHANGED <<tbVars, ebVars, wsVars, sseVars, storeVars, subVars>>

(***************************************************************************)
(* Specifications                                                          *)
(***************************************************************************)
\* a component that a specification does not exercise is constructed with its defaults
EBDefaults ==
    {[maxRetryAttempts |-> Undefined, initialDelay |-> Undefined,
      maxDelay |-> Undefined, disableAndUseConstantDelayOf |-> Undefined]}

\* the store of a specification that does not exercise it
StoreDefaultStates == {JsObject(<<<<"k1", JsString("a")>>>>, "initial")}

InitTB == TBInitWith(TBConfigs) /\ EBInitWith(EBDefaults) /\ WSInitWith(EBDefaults)
          /\ SSEInit /\ StoreInitWith(StoreDefaultStates) /\ SWInit /\ PollInit
InitEB == TBInitWith(TBDefaults) /\ EBInitWith(EBConfigs) /\ WSInitWith(EBDefaults)
          /\ SSEInit /\ StoreInitWith(StoreDefaultStates) /\ SWInit /\ PollInit
InitWS == TBInitWith(TBDefaults) /\ EBInitWith(EBDefaults)
          /\ WSInitWith(WSConfigsWith(0..1 \cup {DefaultMaxRetries})) /\ SSEInit
          /\ StoreInitWith(StoreDefaultStates) /\ SWInit /\ PollInit
InitWSC == TBInitWith(TBDefaults) /\ EBInitWith(EBDefaults)
           /\ WSInitConstruct(WSConfigsWith({1}), WSUrlKinds) /\ SSEInit
           /\ StoreInitWith(StoreDefaultStates) /\ SWInit /\ PollInit
InitWSQ == TBInitWith(TBDefaults) /\ EBInitWith(EBDefaults)
           /\ WSInitOver(WSConfigsWith({0}), FALSE) /\ SSEInit
           /\ StoreInitWith(StoreDefaultStates) /\ SWInit /\ PollInit
InitSSE == TBInitWith(SSEConfigs) /\ EBInitWith(EBDefaults) /\ WSInitWith(EBDefaults)
           /\ SSEInit /\ StoreInitWith(StoreDefaultStates) /\ SWInit /\ PollInit

InitStore == TBInitWith(TBDefaults) /\ EBInitWith(EBDefaults) /\ WSInitWith(EBDefaults)
             /\ SSEInit /\ StoreInitWith(StoreInitialStates) /\ SWInit /\ PollInit
\* the helpers that keep no connection
InitHelpers == TBInitWith(TBDefaults) /\ EBInitWith(EBDefaults) /\ WSInitWith(EBDefaults)
               /\ SSEInit /\ StoreInitWith(StoreDefaultStates) /\ SWInit /\ PollInit

SpecTB == InitTB /\ [][TBNext]_vars
SpecEB == InitEB /\ [][EBNext]_vars
SpecWS == InitWS /\ [][WSNext]_vars
SpecWSQ == InitWSQ /\ [][WSQNext]_vars
SpecWSL == InitWS /\ [][WSLNext]_vars
SpecWSC == InitWSC /\ [][WSCNext]_vars
SpecSSE == InitSSE /\ [][SSENext]_vars
SpecSSEL == InitSSE /\ [][SSELNext]_vars
SpecStore == InitStore /\ [][StoreNext]_vars
SpecStoreM == InitStore /\ [][StoreMNext]_vars
SpecSub == InitHelpers /\ [][SWNext]_vars
SpecPoll == InitHelpers /\ [][PollNext]_vars

(***************************************************************************)
(* TimeoutBackoff: properties                                              *)
(***************************************************************************)
\* C1: with maxRetries = k and no reset in between, each of the first k
\* trigger() calls schedules exactly one retry and invokes no errorCallback;
\* the (k+1)-th and every later call schedules nothing and (when an
\* errorCallback was given) invokes it.  For k = 0 the first call is fatal.
C1_FirstKScheduleThenFatal ==
    [][ tbHist'.sinceReset = tbHist.sinceReset + 1 =>
          IF tbHist'.sinceReset <= tbCfg.maxRetries
          THEN /\ Len(tbTimers') = Len(tbTimers) + 1
               /\ tbErrorCalls' = tbErrorCalls
          ELSE /\ tbTimers' = tbTimers
               /\ (tbCfg.hasErrorCallback => tbErrorCalls' = tbErrorCalls + 1) ]_vars

\* C1 witness: k >= 1 retries were scheduled, the (k+1)-th call was fatal and a
\* later call was made, all without a reset
C1_Witness ==
    /\ tbCfg.maxRetries >= 1
    /\ tbHist.resets = 0
    /\ tbHist.last = "fatal"
    /\ tbHist.scheduled = tbCfg.maxRetries
    /\ tbHist.sinceReset > tbCfg.maxRetries + 1

\* C2 (as claimed): after errorCallback has fired, further trigger() calls made
\* before a reset do not invoke it again, i.e. it fires at most once per
\* exhaustion.
C2_ErrorCallbackOnce == tbHist.errors <= 1

\* C2 (amended): errorCallback fires on the (k+1)-th trigger() and once more on
\* every further trigger() before a reset: after j calls since the last reset
\* it has fired max(0, j - k) times.
C2_ErrorCallbackEveryCallBeyondK ==
    tbCfg.hasErrorCallback =>
        tbHist.errors = IF tbHist.sinceReset > tbCfg.maxRetries
                        THEN tbHist.sinceReset - tbCfg.maxRetries
                        ELSE 0

\* C2 witness: the errorCallback has fired twice since the last reset
C2_Witness == tbCfg.hasErrorCallback /\ tbHist.errors >= 2

\* C3: a non-fatal trigger() schedules its retry with delay
\* min(initialDelay * 2^n, maxDelay), n the number of trigger() calls since
\* construction or the last reset (this call included); the delay never
\* exceeds maxDelay.
C3_DelayIsCappedExponential ==
    tbHist.last = "schedule" =>
        LET n == tbHist.sinceReset
            e == tbCfg.initialDelay * Pow2(n)
        IN  /\ tbHist.lastDelay = (IF e <= tbCfg.maxDelay THEN e ELSE tbCfg.maxDelay)
            /\ tbHist.lastDelay <= tbCfg.maxDelay
            /\ tbTimers[Len(tbTimers)] = tbHist.lastDelay

\* C3 witness: a retry whose exponential delay exceeds maxDelay was scheduled
C3_Witness ==
    /\ tbHist.last = "schedule"
    /\ tbHist.sinceReset >= 2
    /\ tbCfg.initialDelay * Pow2(tbHist.sinceReset) > tbCfg.maxDelay
    /\ tbHist.lastDelay = tbCfg.maxDelay

\* C4: trigger(true) sets the attempt counter to 0, schedules nothing and
\* invokes no callback; the failure sequence after it again gets k scheduled
\* retries before a trigger() is fatal, and its first retry is scheduled with
\* the first-attempt delay.
C4_ResetZeroesCounter ==
    /\ [][ tbHist'.resets = tbHist.resets + 1 =>
             /\ retries' = 0
             /\ tbTimers' = tbTimers
             /\ tbRetryCalls' = tbRetryCalls
             /\ tbErrorCalls' = tbErrorCalls ]_vars
    /\ [](tbHist.resets > 0 /\ tbHist.last = "fatal" =>
             tbHist.scheduled = tbCfg.maxRetries)
    /\ [](tbHist.resets > 0 /\ tbHist.last = "schedule" /\ tbHist.scheduled = 1 =>
             tbHist.lastDelay = (IF 2 * tbCfg.initialDelay <= tbCfg.maxDelay
                                 THEN 2 * tbCfg.initialDelay
                                 ELSE tbCfg.maxDelay))

\* C4 witness: a reset after m attempts, 1 <= m < k, then k scheduled retries
\* and a fatal trigger()
C4_Witness ==
    /\ tbHist.resets > 0
    /\ tbHist.resetAfter >= 1
    /\ tbHist.resetAfter < tbCfg.maxRetries
    /\ tbHist.last = "fatal"
    /\ tbHist.scheduled = tbCfg.maxRetries

(***************************************************************************)
(* ExponentiallyBackoff: properties                                        *)
(***************************************************************************)
\* C5 (as claimed): the wait before the resubscription for attempt n is
\* min(constantDelay ?? initialDelay * 2^n, maxDelay), so it never exceeds
\* maxDelay, also when disableAndUseConstantDelayOf is supplied.
C5_WaitIsCappedAlways ==
    ebPhase = "waiting" =>
        LET base == IF ebCfg.disableAndUseConstantDelayOf # Undefined
                    THEN ValueOf(ebCfg.disableAndUseConstantDelayOf)
                    ELSE EBInitialDelay(ebCfg) * Pow2(ebHist.failRun)
        IN  /\ ebWait = (IF base <= EBMaxDelay(ebCfg) THEN base ELSE EBMaxDelay(ebCfg))
            /\ ebWait <= EBMaxDelay(ebCfg)

\* C5 (amended): the wait before the resubscription for attempt n is
\* disableAndUseConstantDelayOf when that is supplied (not capped by maxDelay)
\* and min(initialDelay * 2^n, maxDelay) otherwise; without a constant delay it
\* never exceeds maxDelay.
C5_WaitIsConstantOrCappedExponential ==
    ebPhase = "waiting" =>
        LET e == EBInitialDelay(ebCfg) * Pow2(ebHist.failRun)
        IN  IF ebCfg.disableAndUseConstantDelayOf # Undefined
            THEN ebWait = ValueOf(ebCfg.disableAndUseConstantDelayOf)
            ELSE /\ ebWait = (IF e <= EBMaxDelay(ebCfg) THEN e ELSE EBMaxDelay(ebCfg))
                 /\ ebWait <= EBMaxDelay(ebCfg)

\* C5 witness: a wait with a constant delay larger than maxDelay
C5_Witness ==
    /\ ebPhase = "waiting"
    /\ ebCfg.disableAndUseConstantDelayOf # Undefined
    /\ ebWait > EBMaxDelay(ebCfg)

\* C6: with maxAttempts = k the consumer receives an error exactly when the
\* source has failed k+1 times in a row with no value in between; each earlier
\* failure is absorbed (no error, a delayed resubscription is pending), and a
\* value is delivered to the consumer without an error.
C6_ErrorAfterKPlusOneFailures ==
    /\ [](ebOut.error <=> ebHist.failRun = EBMaxRetryAttempts(ebCfg) + 1)
    /\ [][ (/\ ebHist'.failRun = ebHist.failRun + 1
            /\ ebHist'.failRun <= EBMaxRetryAttempts(ebCfg))
           => (ebPhase' = "waiting" /\ ~ebOut'.error /\ ebOut' = ebOut) ]_vars
    /\ [][ ebHist'.successes = ebHist.successes + 1
           => (ebOut'.values = ebOut.values + 1 /\ ~ebOut'.error) ]_vars

\* C6 witness: failures were absorbed, a value was delivered, and a later run
\* of k+1 failures (k >= 1) reached the consumer as an error
C6_Witness ==
    /\ EBMaxRetryAttempts(ebCfg) >= 1
    /\ ebOut.values >= 1
    /\ ebHist.failsBefore >= 1
    /\ ebOut.error

\* C7: a value from the source sets the attempt counter to 0: the failure
\* sequence after a value again gets maxAttempts resubscriptions before the
\* error propagates, and its first wait is the first-attempt delay.
C7_SuccessResetsCounter ==
    /\ [][ ebHist'.successes = ebHist.successes + 1 => ebSoFar' = 0 ]_vars
    /\ [](ebHist.successes > 0 /\ ebOut.error =>
             ebHist.resubs = EBMaxRetryAttempts(ebCfg))
    /\ [](ebHist.successes > 0 /\ ebPhase = "waiting" /\ ebHist.failRun = 1 =>
             ebWait = (IF ebCfg.disableAndUseConstantDelayOf # Undefined
                       THEN ValueOf(ebCfg.disableAndUseConstantDelayOf)
                       ELSE IF 2 * EBInitialDelay(ebCfg) <= EBMaxDelay(ebCfg)
                            THEN 2 * EBInitialDelay(ebCfg)
                            ELSE EBMaxDelay(ebCfg)))

\* C7 witness: failures, then a value, then a run of k+1 failures (k >= 1)
\* with k resubscriptions
C7_Witness ==
    /\ EBMaxRetryAttempts(ebCfg) >= 1
    /\ ebHist.successes > 0
    /\ ebHist.failsBefore >= 1
    /\ ebOut.error
    /\ ebHist.resubs = EBMaxRetryAttempts(ebCfg)

(***************************************************************************)
(* WebsocketWorker: properties                                             *)
(***************************************************************************)
\* C8: send(data) never throws to its caller.  With a transport that exists
\* and is not closed the data is written at once and the OutboundQueue is
\* unchanged, and an exception raised by that write is emitted on wsErrors$;
\* otherwise the data is appended at the tail of the OutboundQueue and nothing
\* is written.
C8_SendWritesOrQueues ==
    [][ wsEnv'.sent = wsEnv.sent + 1 =>
          /\ wsEnv'.escaped = wsEnv.escaped
          /\ IF wsConnection = "live"
             THEN /\ messageQueue' = messageQueue
                  /\ \/ /\ wsEnv'.throws = wsEnv.throws
                        /\ wsWritten' = Append(wsWritten,
                                               [id |-> wsEnv'.sent, queued |-> FALSE])
                        /\ wsErrors' = wsErrors
                     \/ /\ wsEnv'.throws = wsEnv.throws + 1
                        /\ wsWritten' = wsWritten
                        /\ wsErrors'.count = wsErrors.count + 1
             ELSE /\ messageQueue' = Append(messageQueue, wsEnv'.sent)
                  /\ wsWritten' = wsWritten
                  /\ wsErrors' = wsErrors ]_vars

\* C8 witness: a send() whose write raised was reported on wsErrors$, after a
\* message was queued and another written directly
C8_Witness ==
    /\ wsEnv.last = "send"
    /\ wsErrors.last = "send"
    /\ wsEnv.throws >= 1
    /\ Len(messageQueue) >= 1
    /\ \E i \in 1..Len(wsWritten) : ~wsWritten[i].queued

\* the writes of messages that went through the OutboundQueue, in write order
QueuedWrites == SelectSeq(wsWritten, LAMBDA w : w.queued)

\* C9: the messages placed in the OutboundQueue are written to the transport
\* in the order in which they were enqueued (the number of a message is the
\* number of its send() call), whatever the interleaving of send(),
\* disconnect(), connect(), reconnect() and flushQueue runs.
C9_QueueIsFlushedFifo ==
    LET q == QueuedWrites
    IN  \A i \in 1..(Len(q) - 1) : q[i].id < q[i + 1].id

\* C9 witness: three batches were flushed by two flushQueue runs that each
\* wrote a whole batch; the second whole batch and the last message were
\* written by a run while the other one was suspended in its pause
C9_Witness ==
    /\ wsEnv.overlaps = 2
    /\ Len(QueuedWrites) = 2 * queueBatchSize + 1
    /\ Len(wsWritten) = Len(QueuedWrites)
    /\ messageQueue = <<>>

\* C10 (as claimed): when the retries are exhausted the connection state
\* becomes 'disconnected' and the broadcast message subject completes.
C10_ExhaustionDisconnectsAndCompletes ==
    wsEnv.last = "exhausted" =>
        (wsConnState = "disconnected" /\ wsMessages.stopped)

\* C11: after the retry pipeline has given up (always-failing transport,
\* maxAttempts = 3 included) isDisconnected is true, and until connect() or
\* reconnect() opens a new connection every send() is queued and none is
\* written to a transport.
C11_ExhaustedMeansDisconnectedAndQueueing ==
    /\ [](wsEnv.exhausted => WSIsDisconnected(wsConnection))
    /\ [][ (wsEnv.exhausted /\ wsEnv'.sent = wsEnv.sent + 1) =>
              /\ wsWritten' = wsWritten
              /\ messageQueue' = Append(messageQueue, wsEnv'.sent) ]_vars

\* C12: connect() called while the retry-pipeline subscription exists and is
\* not closed is a no-op: no new transport, subscription or subject, the queue
\* untouched, and the last value of connectionState$ as before the call.
C12_ConnectWhileSubscribedIsNoOp ==
    [][ (wsSubscription = "open" /\ wsEnv'.ops = wsEnv.ops + 1
         /\ wsEnv'.last = "connect") =>
            /\ <<wsConnection', wsSocket', wsSubscription', wsSoFar', wsRetryWait'>>
                 = <<wsConnection, wsSocket, wsSubscription, wsSoFar, wsRetryWait>>
            /\ wsMessages' = wsMessages
            /\ wsListener' = wsListener
            /\ messageQueue' = messageQueue
            /\ wsWritten' = wsWritten
            /\ wsConnState' = wsConnState ]_vars

\* C13: every two consecutive values published on connectionState$ form an
\* allowed transition: connecting->connected, connected->error,
\* error->reconnecting, reconnecting->connecting, or any state->disconnected.
C13_OnlyAllowedStateTransitions ==
    [][ LET chain == <<wsConnState>> \o wsEnv'.pub
            allowed == {<<"connecting", "connected">>, <<"connected", "error">>,
                        <<"error", "reconnecting">>, <<"reconnecting", "connecting">>}
        IN  wsEnv' # wsEnv =>
              \A i \in 1..(Len(chain) - 1) :
                  \/ chain[i + 1] = "disconnected"
                  \/ <<chain[i], chain[i + 1]>> \in allowed ]_vars

\* C14: a transport fault while retries remain starts a backoff retry and is
\* surfaced through connectionState$ alone: 'error' is published at the fault
\* and 'reconnecting' before the next connection attempt, and nothing is
\* emitted on the message stream or on wsErrors$.
C14_TransientFaultShowsErrorThenReconnecting ==
    /\ [][ (wsRetryWait = Undefined /\ wsRetryWait' # Undefined) =>
              /\ wsEnv'.pub # <<>>
              /\ Head(wsEnv'.pub) = "error"
              /\ wsErrors' = wsErrors
              /\ wsMessages' = wsMessages
              /\ wsListener' = wsListener ]_vars
    /\ [][ (wsRetryWait # Undefined /\ wsEnv'.last = "retry") =>
              \/ wsConnState = "reconnecting"
              \/ (wsEnv'.pub # <<>> /\ Head(wsEnv'.pub) = "reconnecting") ]_vars

\* C15: the outward message stream is stable across reconnects: a subscriber
\* of an observable obtained from listen() (pickMessage, pickAndMapMessage)
\* before a reconnect() or a disconnect(); connect() still receives every
\* message that arrives afterwards, on the new connection.
C15_ListenerReceivesAcrossReconnect ==
    [][ (wsListener.bound # "none" /\ wsEnv'.inbound = wsEnv.inbound + 1) =>
            wsListener'.got = Append(wsListener.got, wsEnv'.inbound) ]_vars

\* C16: disconnect() completes all listener streams: once disconnect() has
\* returned, every subscriber of the worker's message stream has received
\* completion, and no further message is delivered to it.  (Stated for
\* ServerSentEventWorker.)
C16_DisconnectCompletesListeners ==
    /\ []((sseEnv.last = "disconnect" /\ sseListener.bound # "none")
              => sseListener.ended)
    /\ [][ (sseEventSource = "undefined" /\ sseEventSource' = "undefined")
              => sseListener'.got = sseListener.got ]_vars

\* C17: a second disconnect() right after a disconnect() does not throw,
\* changes no worker state and publishes nothing to any subscriber (message
\* stream, error stream, connectionState$).  (Stated for WebsocketWorker.)
C17_SecondDisconnectIsSilentNoOp ==
    [][ (wsEnv.last = "disconnect" /\ wsEnv'.last = "disconnect"
         /\ wsEnv'.ops = wsEnv.ops + 1) =>
            /\ <<wsConnection', wsSocket', wsSubscription', wsMessages', wsConnState'>>
                 = <<wsConnection, wsSocket, wsSubscription, wsMessages, wsConnState>>
            /\ wsErrors' = wsErrors
            /\ wsListener' = wsListener
            /\ wsEnv'.escaped = wsEnv.escaped
            /\ wsEnv'.pub = <<>> ]_vars

\* C18: replay depth 1 on the current connection: a subscriber attaching after
\* m1..mn (n >= 1) were published receives mn at once and nothing older, and
\* afterwards every later well-formed frame of that connection, in arrival
\* order.  (Stated for ServerSentEventWorker.)
C18_ReplayDepthOneThenEveryLaterMessage ==
    /\ [][ (sseListener.bound = "none" /\ sseListener'.bound = "current"
            /\ sseEnv.lastValid > 0) =>
              sseListener'.got = <<sseEnv.lastValid>> ]_vars
    /\ [][ (sseListener.bound = "current" /\ sseEnv'.frames = sseEnv.frames + 1
            /\ sseEnv'.last = "message") =>
              sseListener'.got = Append(sseListener.got, sseEnv'.frames) ]_vars

\* C19: a subscriber attached after a reconnect, while no message has arrived
\* on the new channel yet, at once receives the last message published before
\* the reconnect.
C19_ReplayAcrossReconnect ==
    [][ (sseListener.bound = "none" /\ sseListener'.bound = "current"
         /\ sseEnv.reconnected /\ sseEnv.lastValid = 0 /\ sseEnv.lastEver > 0) =>
            sseListener'.got = <<sseEnv.lastEver>> ]_vars

\* C20: a frame whose data is not valid JSON does not tear the connection
\* down: the EventSource stays open, the subscribers of the message stream are
\* not terminated and the stream stays able to deliver the next valid frame.
C20_ParseFailureIsIsolated ==
    [][ (sseEnv'.frames = sseEnv.frames + 1 /\ sseEnv'.last = "badframe") =>
            /\ sseEventSource' = "open"
            /\ sseListener'.failed = sseListener.failed
            /\ sseListener'.ended = sseListener.ended
            /\ sseEventSubject'.stopped = sseEventSubject.stopped ]_vars

\* C21: the onerror that is the (maxRetries + 1)-th since construction or the
\* last onopen / resetBackoff() runs the fatal path: the EventSource is closed
\* and forgotten so that isDisconnected is true, the message subject is
\* completed and every open subscriber of the worker's message stream,
\* whichever connection it subscribed on, receives the completion, and no retry
\* is scheduled; each of the maxRetries errors before it schedules exactly
\* one reconnect() and leaves the message subject and its subscriber alone.
C21_FatalPathOnExhaustion ==
    [][ (tbHist'.sinceReset = tbHist.sinceReset + 1
         /\ sseEnv'.last \in {"fatal", "error"}) =>
           /\ (tbHist'.sinceReset = tbCfg.maxRetries + 1 =>
                 /\ sseEnv'.last = "fatal"
                 /\ SSEIsDisconnected(sseEventSource')
                 /\ sseEventSubject'.stopped
                 /\ (sseListener.bound # "none" /\ ListenerOpen(sseListener)
                       => sseListener'.ended)
                 /\ tbTimers' = tbTimers)
           /\ (tbHist'.sinceReset <= tbCfg.maxRetries =>
                 /\ sseEnv'.last = "error"
                 /\ Len(tbTimers') = Len(tbTimers) + 1
                 /\ sseEventSubject' = sseEventSubject
                 /\ sseListener' = sseListener
                 /\ sseEventSource' # "undefined") ]_vars

\* C22: after the fatal path has run, and until the caller calls connect()
\* or reconnect(), the worker stays disconnected, whatever timers and
\* transport events interleave.
C22_FatalExhaustionIsTerminal ==
    sseEnv.halted = "fatal" => SSEIsDisconnected(sseEventSource)

\* C23: after disconnect() or cleanOnDestroy(), and until the caller calls
\* connect() or reconnect(), no backoff timer scheduled earlier opens a new
\* EventSource: the worker stays disconnected.
C23_DisconnectCancelsPendingRetries ==
    sseEnv.halted = "caller" => SSEIsDisconnected(sseEventSource)

\* C24: whenever the worker holds an EventSource, so after every connect()
\* and reconnect(), the pairs registered on it are exactly the pairs added
\* with addEventListener and not removed since: every such pair is
\* registered, and no removed pair is registered on an EventSource created
\* after its removal.
C24_CustomListenersPersist ==
    sseEventSource # "undefined" => sseRegistered = sseEnv.wanted

\* a reconnect re-registered two pairs that survived the removal of a third
C24_Witness ==
    /\ sseEnv.last \in {"reconnect", "retry", "connect"}
    /\ sseEventSource = "connecting"
    /\ sseEnv.listenerOps = 3
    /\ Cardinality(sseEnv.wanted) = 1
    /\ sseRegistered = sseEnv.wanted
    /\ Len(customEventListeners) = 1

(***************************************************************************)
(* StoreWorker: properties                                                 *)
(***************************************************************************)
\* the property names of an object
Names(v) == {v.fields[i][1] : i \in 1..Len(v.fields)}

RECURSIVE StructEq(_, _)
\* structural equality of two values: the same kind of value and, for
\* objects, the same properties with structurally equal values, in any order
StructEq(v, w) ==
    /\ v.kind = w.kind
    /\ v.atom = w.atom
    /\ Names(v) = Names(w)
    /\ \A i \in 1..Len(v.fields) : \A j \in 1..Len(w.fields) :
          v.fields[i][1] = w.fields[j][1] => StructEq(v.fields[i][2], w.fields[j][2])

RECURSIVE Resolves(_, _)
\* every key of the path is a property of the value reached so far
Resolves(v, path) ==
    \/ path = <<>>
    \/ /\ v.kind = "object"
       /\ \E i \in 1..Len(v.fields) :
             v.fields[i][1] = Head(path) /\ Resolves(v.fields[i][2], Tail(path))

RECURSIVE SameOutside(_, _, _)
\* old and new differ at most at the path
SameOutside(old, new, path) ==
    \/ path = <<>>
    \/ /\ old.kind = "object" /\ new.kind = "object"
       /\ Names(old) = Names(new)
       /\ \A i \in 1..Len(old.fields) : \A j \in 1..Len(new.fields) :
             old.fields[i][1] = new.fields[j][1] =>
                IF old.fields[i][1] = Head(path)
                THEN SameOutside(old.fields[i][2], new.fields[j][2], Tail(path))
                ELSE StructEq(old.fields[i][2], new.fields[j][2])

\* the step is a call on the store
StoreCalled == storeEnv'.ops = storeEnv.ops + 1

\* C25: set(key, v) with a key, and setIn(path, v) with a path, that the
\* current snapshot does not have throws, leaves the snapshot as it is and
\* emits nothing; get(key, d) and getIn(path, d) on such a key or path return
\* d (undefined when omitted) and do not throw.
C25_AbsentKeyOrPath ==
    [][ /\ (StoreCalled /\ storeEnv'.last = "set"
            /\ storeEnv'.key \notin Names(storeState)) =>
               /\ storeEnv'.threw
               /\ storeState' = storeState
               /\ storeSub' = storeSub
               /\ storeEnv'.nexts = storeEnv.nexts
        /\ (StoreCalled /\ storeEnv'.last = "setIn" /\ storeEnv'.path # <<>>
            /\ ~Resolves(storeState, storeEnv'.path)) =>
               /\ storeEnv'.threw
               /\ storeState' = storeState
               /\ storeSub' = storeSub
               /\ storeEnv'.nexts = storeEnv.nexts
        /\ (StoreCalled /\ storeEnv'.last = "get"
            /\ storeEnv'.key \notin Names(storeState)) =>
               ~storeEnv'.threw /\ storeEnv'.result = storeEnv'.arg
        /\ (StoreCalled /\ storeEnv'.last = "getIn" /\ storeEnv'.path # <<>>
            /\ ~Resolves(storeState, storeEnv'.path)) =>
               ~storeEnv'.threw /\ storeEnv'.result = storeEnv'.arg ]_vars

\* setIn on k2.q, a property that the object at k2 does not have, threw
\* after an update that a subscriber had seen
C25_Witness ==
    /\ storeEnv.last = "setIn"
    /\ storeEnv.threw
    /\ storeEnv.path = <<"k2", "q">>
    /\ "k2" \in Names(storeState)
    /\ storeSub.active
    /\ storeEnv.nexts >= 1

\* C26: a write by the caller to an object it read from store.state, or gave
\* to set, setIn or resetWithState, leaves what store.state returns
\* unchanged; what store.state returns changes only in a call of set, setIn,
\* reset or resetWithState.
C26_SnapshotImmutability ==
    /\ [][ (StoreCalled /\ storeEnv'.last = "mutate") =>
              StructEq(StoreStateGetter(storeState'), StoreStateGetter(storeState))
         ]_vars
    /\ [][ ~StructEq(StoreStateGetter(storeState'), StoreStateGetter(storeState)) =>
              /\ StoreCalled
              /\ storeEnv'.last \in {"set", "setIn", "reset", "resetWithState"}
         ]_vars

\* the caller changed an object that it had given to the store before
C26_Witness ==
    /\ storeEnv.last = "mutate"
    /\ ~storeEnv.threw
    /\ storeEnv.passed
    /\ ~StructEq(storeHeld, StoreStateGetter(storeState))
    /\ storeEnv.key = "k1"
    /\ StructEq(Field(storeHeld, "k1"), JsString("m"))

\* C27: after a successful set(key, v), get(key) is equal to v and every
\* other top-level key has the value it had; after a successful
\* setIn(path, v) the value at the path is equal to v and every value
\* outside the path is as it was.
C27_SetFrame ==
    [][ /\ (StoreCalled /\ storeEnv'.last = "set" /\ ~storeEnv'.threw) =>
               /\ StructEq(MapGet(StoreMap(storeState', "read"), storeEnv'.key,
                                  JsUndefined),
                           storeEnv'.arg)
               /\ SameOutside(storeState, storeState', <<storeEnv'.key>>)
        /\ (StoreCalled /\ storeEnv'.last = "setIn" /\ ~storeEnv'.threw) =>
               /\ StructEq(MapGetIn(StoreMap(storeState', "read"), storeEnv'.path,
                                    JsUndefined),
                           storeEnv'.arg)
               /\ SameOutside(storeState, storeState', storeEnv'.path) ]_vars

\* setIn replaced the property x of the object at k2, next to k1 and k2.y
C27_Witness ==
    /\ storeEnv.last = "setIn"
    /\ ~storeEnv.threw
    /\ storeEnv.path = <<"k2", "x">>
    /\ Names(storeState) = {"k1", "k2"}
    /\ Names(Field(storeState, "k2")) = {"x", "y"}
    /\ StructEq(Field(Field(storeState, "k2"), "x"), JsString("b"))

\* C28: reset() makes store.state equal to the state of construction,
\* whatever set, setIn and resetWithState calls came before, and
\* resetWithState(s) makes store.state equal to s.
C28_ResetRestores ==
    [][ /\ (StoreCalled /\ storeEnv'.last = "reset") =>
               StructEq(StoreStateGetter(storeState'), storeEnv.constructed)
        /\ (StoreCalled /\ storeEnv'.last = "resetWithState") =>
               StructEq(StoreStateGetter(storeState'), storeEnv'.arg) ]_vars

\* reset() after two updates that had left another state
C28_Witness ==
    /\ storeEnv.last = "reset"
    /\ storeEnv.nexts = 3
    /\ StructEq(storeState, storeEnv.constructed)
    /\ storeSub.active
    /\ Len(storeSub.got) >= 2

\* C29: the top-level keys of the snapshot are always the keys of the state
\* of construction.
C29_SchemaIsClosed ==
    Names(storeState) = Names(storeEnv.constructed)

\* the value at the subscriber's key in a snapshot
C30_At(snapshot) == MapGet(snapshot, storeSub.key, JsUndefined)

\* C30 as stated, for a subscriber of select$(key) with default options: an
\* update that leaves the value at key structurally equal emits nothing,
\* any other update emits the new value once, and no two consecutive
\* emissions are structurally equal.
C30_SelectEmitsOnStructuralChange ==
    /\ [][ (~storeSub.active /\ storeSub'.active) =>
              /\ Len(storeSub'.got) = 1
              /\ StructEq(storeSub'.got[1],
                          MapGet(storeState, storeSub'.key, JsUndefined)) ]_vars
    /\ [][ (storeSub.active /\ storeEnv'.nexts = storeEnv.nexts + 1) =>
              IF StructEq(C30_At(storeState), C30_At(storeState'))
              THEN storeSub'.got = storeSub.got
              ELSE /\ Len(storeSub'.got) = Len(storeSub.got) + 1
                   /\ StructEq(storeSub'.got[Len(storeSub'.got)],
                               C30_At(storeState')) ]_vars
    /\ [](\A i \in 1..(Len(storeSub.got) - 1) :
              ~StructEq(storeSub.got[i], storeSub.got[i + 1]))

\* C30, amended: an update that leaves the serialization (JSON.stringify) of
\* the value at key as it was emits nothing, any other update emits the new
\* value once, and no two consecutive emissions have the same serialization.
C30_SelectEmitsOnSerializedChange ==
    /\ [][ (~storeSub.active /\ storeSub'.active) =>
              /\ Len(storeSub'.got) = 1
              /\ StructEq(storeSub'.got[1],
                          MapGet(storeState, storeSub'.key, JsUndefined)) ]_vars
    /\ [][ (storeSub.active /\ storeEnv'.nexts = storeEnv.nexts + 1) =>
              IF JsonStringify(C30_At(storeState)) = JsonStringify(C30_At(storeState'))
              THEN storeSub'.got = storeSub.got
              ELSE /\ Len(storeSub'.got) = Len(storeSub.got) + 1
                   /\ StructEq(storeSub'.got[Len(storeSub'.got)],
                               C30_At(storeState')) ]_vars
    /\ [](\A i \in 1..(Len(storeSub.got) - 1) :
              JsonStringify(storeSub.got[i]) # JsonStringify(storeSub.got[i + 1]))

\* the subscriber received the same object twice in a row, its properties
\* in another order, and an update of another key in between emitted nothing
C30_Witness ==
    /\ storeSub.active
    /\ Len(storeSub.got) = 2
    /\ StructEq(storeSub.got[1], storeSub.got[2])
    /\ storeSub.got[1].fields # storeSub.got[2].fields
    /\ storeEnv.nexts = 3

(***************************************************************************)
(* ServerSentEventWorker: the backoff across opens                         *)
(***************************************************************************)
\* C35: onopen sets the attempt counter to 0, and of the errors that follow
\* an open the first maxRetries each schedule one reconnect() and the next
\* one runs the fatal path, however many errors came before the open.
C35_OpenResetsBackoff ==
    /\ [][ (sseEnv'.last = "open" /\ tbHist'.resets = tbHist.resets + 1) =>
              retries' = 0 ]_vars
    /\ [][ (tbHist'.sinceReset = tbHist.sinceReset + 1 /\ tbHist.resets >= 1
            /\ sseEnv'.last \in {"fatal", "error"}) =>
              /\ retries' = tbHist'.sinceReset
              /\ (tbHist'.sinceReset <= tbCfg.maxRetries =>
                    sseEnv'.last = "error" /\ Len(tbTimers') = Len(tbTimers) + 1)
              /\ (tbHist'.sinceReset = tbCfg.maxRetries + 1 =>
                    sseEnv'.last = "fatal" /\ tbTimers' = tbTimers) ]_vars

\* an open that followed an error, then one tolerated error and the fatal one
C35_Witness ==
    /\ tbCfg.maxRetries = 1
    /\ tbHist.resets = 1
    /\ tbHist.resetAfter = 1
    /\ tbHist.sinceReset = 2
    /\ tbHist.scheduled = 1
    /\ sseEnv.last = "fatal"

\* C36: at most one backoff retry timer is pending at any time.
C36_AtMostOnePendingRetry ==
    Len(tbTimers) <= 1

\* C37: when onopen fires, no retry timer scheduled earlier is still pending,
\* and a retry timer never runs reconnect() on a channel that is open.
C37_NoRetryInFlightOnOpen ==
    /\ [][ (sseEnv'.last = "open" /\ tbHist'.resets = tbHist.resets + 1) =>
              tbTimers = <<>> ]_vars
    /\ [][ (sseEnv'.last = "retry" /\ tbRetryCalls' = tbRetryCalls + 1) =>
              sseEventSource # "open" ]_vars

(***************************************************************************)
(* WebsocketWorker: the flushing of the OutboundQueue                      *)
(***************************************************************************)

\* what a step appended to the record of the transport writes
NewWrites == SubSeq(wsWritten', Len(wsWritten) + 1, Len(wsWritten'))

\* C34: one turn of flushQueue (the only code between two suspension points
\* of a run) writes at most queueBatchSize queued messages and takes no more
\* than that off the queue; whenever it took messages and others remain, the
\* run pauses for queueBatchDelayMs; a turn that finds the transport undefined
\* or closed takes nothing off the queue and writes nothing.
C34_FlushInBatches ==
    [][ wsEnv'.last \in {"connect", "reconnect", "flush"} =>
          LET woken == IF wsEnv'.last = "flush" THEN 1 ELSE 0
              taken == Len(messageQueue) - Len(messageQueue')
          IN  /\ Len(NewWrites) <= queueBatchSize
              /\ taken <= queueBatchSize
              /\ \A i \in DOMAIN NewWrites : NewWrites[i].queued
              /\ (taken > 0 /\ messageQueue' # <<>>) =>
                    /\ wsFlushSleeping' = wsFlushSleeping - woken + 1
                    /\ wsEnv'.pause = Some(queueBatchDelayMs)
              /\ ~WSTransportUsable(wsConnection') =>
                    /\ messageQueue' = messageQueue
                    /\ wsWritten' = wsWritten ]_vars

\* a full batch was written, the run paused, disconnect() dropped the
\* transport, and the run woke up and left the rest in the queue
C34_Witness ==
    /\ wsEnv.last = "flush"
    /\ wsConnection = "undefined"
    /\ Len(wsWritten) = queueBatchSize
    /\ Len(messageQueue) = 1
    /\ wsEnv.pause = Undefined
    /\ wsEnv.throws = 0

\* C38: every message that send() appended to the queue is either still in
\* the queue or was written to a transport, never both, and is there once.
\* (the occurrences of the enqueued messages, those of the queue followed by
\* those of the writes, name every enqueued message and are as many as the
\* enqueued messages: each message occurs exactly once)
C38_NoLossNoDuplication ==
    LET enq == wsEnv.enq
        w == SelectSeq(wsWritten, LAMBDA x : x.id \in enq)
        occ == messageQueue \o [i \in DOMAIN w |-> w[i].id]
    IN  /\ {occ[i] : i \in DOMAIN occ} = enq
        /\ Len(occ) = Cardinality(enq)

\* a batch was written, the rest waits in the queue after a disconnect()
C38_Witness ==
    /\ wsEnv.last = "disconnect"
    /\ Len(wsWritten) = queueBatchSize
    /\ Len(messageQueue) = queueBatchSize + 1
    /\ Cardinality(wsEnv.enq) = 2 * queueBatchSize + 1
    /\ wsFlushSleeping = 1

\* C39: the transport receives the messages in the order of the send() calls
\* (a message is the number of its send() call).
C39_WrittenInSendOrder ==
    LET w == wsWritten
    IN  \A i \in 1..(Len(w) - 1) : w[i].id < w[i + 1].id

(***************************************************************************)
(* WebsocketWorker: construction                                           *)
(***************************************************************************)

\* C31: when WEBSOCKET_URL is neither a string nor an object, the constructor
\* throws 'Invalid WebSocketSubjectConfig. Object expected.', and there is no
\* WebSocketSubject, no socket and no subscription.
C31_InvalidConfigThrowsInConstructor ==
    wsEnv.url \notin {"string", "object"} =>
        /\ wsEnv.ctorError = Some(InvalidConfigMessage)
        /\ wsConnection = "undefined"
        /\ wsSocket = "none"
        /\ wsSubscription = "undefined"
        /\ wsEnv.last = "constructor"

C31_Witness ==
    /\ wsEnv.url = "number"
    /\ wsEnv.ctorError # Undefined
    /\ wsSubscription = "undefined"

(***************************************************************************)
(* SubscriptionWorker                                                      *)
(***************************************************************************)

\* the subscriptions in a list
SWMembers(list) == {list[i] : i \in DOMAIN list}

\* C32: unsubscribe() calls unsubscribe() once on every subscription of the
\* set, whichever of them throw, lets no exception out, empties the set and
\* leaves the map as it is; unsubscribeAllMapped() does the same with the
\* subscriptions of the map and leaves the set as it is.
C32_BulkRelease ==
    /\ [][ (swEnv'.last = "unsubscribe" /\ swEnv'.ops = swEnv.ops + 1) =>
              /\ \A s \in SWSubs :
                    swCalls'[s] = swCalls[s] + (IF s \in SWMembers(subs) THEN 1 ELSE 0)
              /\ subs' = <<>>
              /\ mappedSubs' = mappedSubs ]_vars
    /\ [][ (swEnv'.last = "unsubscribeAllMapped" /\ swEnv'.ops = swEnv.ops + 1) =>
              /\ \A s \in SWSubs :
                    swCalls'[s] = swCalls[s]
                        + (IF s \in SWMembers(SWMapValues(mappedSubs)) THEN 1 ELSE 0)
              /\ mappedSubs' = <<>>
              /\ subs' = subs ]_vars

\* unsubscribe() went through the set s1, s2, of which s1 threw, with s3 mapped
C32_Witness ==
    /\ swEnv.last = "unsubscribe"
    /\ swEnv.thrown = {"s1"}
    /\ swCalls = [s \in SWSubs |-> IF s = "s3" THEN 0 ELSE 1]
    /\ subs = <<>>
    /\ mappedSubs = <<<<"k1", "s3">>>>

\* C40: when unsubscribeAllMapped() returns, unsubscribe() has been called
\* on every subscription that map() stored.
C40_NoMappedSubscriptionLeaks ==
    [][ (swEnv'.last = "unsubscribeAllMapped" /\ swEnv'.ops = swEnv.ops + 1) =>
          \A s \in swEnv'.accepted : swCalls'[s] >= 1 ]_vars

(***************************************************************************)
(* PollingManager                                                          *)
(***************************************************************************)

\* C33: at most one subscription of the polling observable is open; stop()
\* leaves pollingSubscription closed, makes no subscription, and changes
\* nothing when it is closed already; resume() leaves it open, and makes a
\* subscription exactly when the current one is closed; restart() leaves it
\* open.
C33_PollingLifecycle ==
    /\ [](Cardinality({i \in DOMAIN pollSubscriptions :
                          pollSubscriptions[i] = "open"}) <= 1)
    /\ [][ (pollEnv'.last = "stop" /\ pollEnv'.ops = pollEnv.ops + 1) =>
              /\ PollClosed(pollSubscriptions')
              /\ Len(pollSubscriptions') = Len(pollSubscriptions)
              /\ PollClosed(pollSubscriptions) =>
                    pollSubscriptions' = pollSubscriptions ]_vars
    /\ [][ (pollEnv'.last = "resume" /\ pollEnv'.ops = pollEnv.ops + 1) =>
              /\ ~PollClosed(pollSubscriptions')
              /\ IF PollClosed(pollSubscriptions)
                 THEN Len(pollSubscriptions') = Len(pollSubscriptions) + 1
                 ELSE pollSubscriptions' = pollSubscriptions ]_vars
    /\ [][ (pollEnv'.last = "restart" /\ pollEnv'.ops = pollEnv.ops + 1) =>
              /\ ~PollClosed(pollSubscriptions')
              /\ Len(pollSubscriptions') <= Len(pollSubscriptions) + 1 ]_vars

\* stop(), resume(), restart(): the third subscription is the open one
C33_Witness ==
    /\ pollEnv.last = "restart"
    /\ pollEnv.ops = 3
    /\ pollEnv.errors = 0
    /\ pollSubscriptions = <<"closed", "closed", "open">>
====
